---- MODULE Spec2Model ----
(***************************************************************************)
(* A model of justsql's module collection and its importers                *)
(* (src/engine/importer), of the multi-file compile that feeds them        *)
(* (src/codegen/module.rs) and of the dependency sort                      *)
(* (src/codegen/toposort.rs).                                              *)
(*                                                                         *)
(* One set of variables serves several specifications, one per component:  *)
(*   SpecColl      the ModuleCollection API (transaction/insert/upsert/    *)
(*                 remove) driven by an arbitrary caller                   *)
(*   SpecTopo      topological_sort on every small graph                   *)
(*   SpecWatch     WatchingImporter: the watched directory, the watcher    *)
(*                 thread and the readers                                  *)
(*   SpecAsNeeded  AsNeededImporter and its concurrent callers             *)
(*   SpecBoot      create_evaluator on every small directory               *)
(*   SpecTopoOrder topological_sort on nodes and edges in every order      *)
(*   SpecCompile   Module::from_paths on every small batch of files        *)
(*   SpecBind      build_query_statement and Statement::bind, step by step *)
(*   SpecUnit      Module::new and Module::parse on every small file       *)
(*   SpecParse     Ast::parse and the older parser on every short text     *)
(* Each specification leaves the variables of the others untouched.        *)
(***************************************************************************)
EXTENDS Integers, Sequences, FiniteSets, TLC

VARIABLES
    coll,       \* the ModuleCollection: [endpoints, locations]
    txnpc,      \* "idle", or "func" while a transaction's closure runs
    editable,   \* the clone a running transaction(func) works on
    txnOps,     \* number of calls func has made on its argument so far
    txnLast,    \* what the transaction that has just returned returned, or "none"
    tnodes,     \* topological_sort: the nodes argument
    tedges,     \* topological_sort: the edges argument
    tres,       \* topological_sort: [done, sorted, is_some, cycle]
    fs,         \* the watched directory: what each path holds
    fsOps,      \* number of changes made to the directory so far
    queue,      \* the channel of debounced events, oldest first
    lock,       \* the Mutex around the shared collection: "free" or its holder
    wpc,        \* where the watcher thread is
    wevt,       \* the event the watcher handles, or has handled last
    wfailed,    \* listen_event returns (has returned) Err for wevt
    wpre,       \* the shared collection when handling of wevt began
    wnew,       \* the collection the watcher is about to store
    rlast,      \* what the last lookup of a reader observed
    callers,    \* AsNeededImporter: each caller's call, position and result
    compiles,   \* AsNeededImporter: per path, the runs of compile-and-insert
    boot,       \* create_evaluator: [pc, watch, ok, errors]
    batch,      \* Module::from_paths on a batch of files: [pc, modules, ...]
    bind,       \* build_query_statement / Statement::bind at work on a statement
    unit,       \* one parsed file handed to Module::new: [pc, ast, result]
    parse       \* one source text handed to the parser: [pc, input, result]

collVars == <<coll, txnpc, editable, txnOps, txnLast>>
topoVars == <<tnodes, tedges, tres>>
fsVars == <<fs, fsOps>>
watchVars == <<queue, lock, wpc, wevt, wfailed, wpre, wnew, rlast>>
txnVars == <<txnpc, editable, txnOps, txnLast>>
eventVars == <<queue, wpc, wevt, wfailed, wpre, wnew, rlast>>
needVars == <<callers, compiles>>
restVars == <<batch, bind, unit, parse>>

vars == <<coll, txnpc, editable, txnOps, txnLast, tnodes, tedges, tres,
          fs, fsOps, queue, lock, wpc, wevt, wfailed, wpre, wnew, rlast,
          callers, compiles, boot, batch, bind,
          unit, parse>>

\* What each specification leaves alone.
notColl == <<topoVars, fsVars, watchVars, needVars, boot, restVars>>
notTopo == <<collVars, fsVars, watchVars, needVars, boot, restVars>>
notWatch == <<txnVars, topoVars, needVars, boot, restVars>>
notNeed == <<txnVars, topoVars, fsOps, eventVars, boot, restVars>>
notBoot == <<txnVars, topoVars, fsOps, watchVars, needVars, restVars>>
notCompile == <<collVars, topoVars, fsOps, watchVars, needVars, boot, bind, unit,
                parse>>
notBind == <<collVars, topoVars, fsVars, watchVars, needVars, boot, batch, unit,
             parse>>
notUnit == <<collVars, topoVars, fsVars, watchVars, needVars, boot, batch, bind,
             parse>>
notParse == <<collVars, topoVars, fsVars, watchVars, needVars, boot, batch, bind,
              unit>>

----------------------------------------------------------------------------
(* Bounds of the model *)

MaxPath == 2    \* canonical absolute paths are 1..MaxPath
MaxOps == 2     \* calls a transaction's closure makes on its clone
MaxNode == 4    \* topological_sort is run on graphs over the nodes 1..MaxNode
MaxEdges == 3   \* ... with at most MaxEdges distinct edges
MaxFsOps == 2   \* changes made to the watched directory in one behaviour
MaxCallers == 2 \* concurrent callers of the AsNeededImporter
MaxFile == 3    \* files of a batch handed to Module::from_paths
MaxSource == 4     \* tokens in a source text
MaxRounds == 5     \* rounds of the import loop of from_paths
MaxDecorators == 2 \* decorators in the front matter of a file
MaxStatement == 1  \* interpolations in the statement of a file
MaxInterp == 3  \* interpolations the binder walks over in one statement
MaxDepth == 2   \* nesting of call-sites: importer, imported, its imported
MaxOrderLen == 2 \* length of the node and edge sequences handed to
                 \* topological_sort in any order, over 1..MaxOrderLen + 1

----------------------------------------------------------------------------
(* Paths, endpoints, modules *)

\* A canonical absolute path is a positive integer (PathBuf is Ord, so are
\* integers); -p is a relative spelling of path p.
AbsPaths == 1..MaxPath
RelPaths == {0 - 1}
Paths == AbsPaths \cup RelPaths

is_absolute(location) == location > 0

Endpoints == {"e1", "e2"}
NoEndpoint == "none"
Versions == {"v1", "v2"}

\* codegen::Module as far as the collection and the import checks read it:
\* front_matter.location, front_matter.endpoint, front_matter.imports (the
\* locations recorded in the import map), is_single_statement() and the rest
\* of the compiled text (ver).
Module(location, endpoint, imports, single, ver) ==
    [location |-> location, endpoint |-> endpoint, imports |-> imports,
     single |-> single, ver |-> ver]

----------------------------------------------------------------------------
(* im::OrdMap as a function with a finite domain *)

EmptyMap == [k \in {} |-> 0]
MapPut(m, k, v) == [x \in (DOMAIN m) \cup {k} |-> IF x = k THEN v ELSE m[x]]
MapDel(m, k) == [x \in (DOMAIN m) \ {k} |-> m[x]]
contains_key(m, k) == k \in DOMAIN m

EmptyCollection == [endpoints |-> EmptyMap, locations |-> EmptyMap]

Ok(c) == [ok |-> TRUE, coll |-> c]
Err(c) == [ok |-> FALSE, coll |-> c]

----------------------------------------------------------------------------
(* ModuleCollection *)

\* Mutant: the clone's maps are assigned whatever func returned.
transaction_commits_on_err(self, res) == [ok |-> res.ok, coll |-> res.coll]

\* transaction(func): res is what func returned together with the state it
\* left its argument (the clone of self) in.  The result carries the new
\* value of self.
transaction(self, res) ==
    IF res.ok
    THEN [ok |-> TRUE,
          coll |-> [endpoints |-> res.coll.endpoints,
                    locations |-> res.coll.locations]]
    ELSE [ok |-> FALSE, coll |-> self]

\* The closure of insert, run on the clone.
insert_closure(collection, location, module) ==
    IF ~is_absolute(location)
    THEN Err(collection)
    ELSE IF module.endpoint # NoEndpoint
    THEN IF contains_key(collection.endpoints, module.endpoint)
         THEN Err(collection)
         ELSE Ok([endpoints |-> MapPut(collection.endpoints, module.endpoint, module),
                  locations |-> MapPut(collection.locations, location, module)])
    ELSE Ok([endpoints |-> collection.endpoints,
             locations |-> MapPut(collection.locations, location, module)])

insert(self, location, module) ==
    transaction(self, insert_closure(self, location, module))

\* remove(location); canonical is what fs::canonicalize returns for a
\* relative location: a canonical path, or 0 when it fails.
remove(self, location, canonical) ==
    IF ~is_absolute(location) /\ canonical = 0
    THEN [ok |-> FALSE, removed |-> FALSE, coll |-> self]
    ELSE LET new_loc == IF is_absolute(location) THEN location ELSE canonical
             present == contains_key(self.locations, new_loc)
             locations == MapDel(self.locations, new_loc)
         IN IF present /\ self.locations[new_loc].endpoint # NoEndpoint
            THEN [ok |-> TRUE, removed |-> TRUE,
                  coll |-> [endpoints |-> MapDel(self.endpoints,
                                                 self.locations[new_loc].endpoint),
                            locations |-> locations]]
            ELSE [ok |-> TRUE, removed |-> present,
                  coll |-> [endpoints |-> self.endpoints, locations |-> locations]]

\* The closure of upsert, run on the clone: remove(location)?, then insert.
upsert_closure(collection, location, module, canonical) ==
    LET r == remove(collection, location, canonical)
    IN IF ~r.ok THEN Err(r.coll)
       ELSE LET i == insert(r.coll, location, module)
            IN [ok |-> i.ok, coll |-> i.coll]

upsert(self, location, module, canonical) ==
    transaction(self, upsert_closure(self, location, module, canonical))

----------------------------------------------------------------------------
(* codegen/toposort.rs *)

Range(seq) == {seq[i] : i \in DOMAIN seq}

Min(S) == CHOOSE x \in S : \A y \in S : x <= y
Max(S) == CHOOSE x \in S : \A y \in S : y <= x

\* The iteration order of a BTreeSet: ascending.
RECURSIVE into_iter(_)
into_iter(S) ==
    IF S = {} THEN <<>> ELSE <<Min(S)>> \o into_iter(S \ {Min(S)})

\* set.range((node, min)..=(node, max)) over a BTreeSet of pairs: pairs are
\* ordered lexicographically.
pair_le(a, b) == a[1] < b[1] \/ (a[1] = b[1] /\ a[2] <= b[2])
range(set, lo, hi) == {e \in set : pair_le(lo, e) /\ pair_le(e, hi)}

\* Mutant: a from_node is promoted to a leaf as soon as one of its imports
\* has been emitted.
promotes_too_early(child_of_relations, from_node, min, max) == TRUE

\* child_of_relations.range((from_node, min)..=(from_node, max)).count() == 0
has_no_children(child_of_relations, from_node, min, max) ==
    range(child_of_relations, <<from_node, min>>, <<from_node, max>>) = {}

\* for from_node in from_nodes.drain(..) { ... }
RECURSIVE drain_from_nodes(_, _, _, _, _, _, _)
drain_from_nodes(from_nodes, node, parent_of_relations, child_of_relations, leaves, min, max) ==
    IF from_nodes = <<>>
    THEN [parent_of_relations |-> parent_of_relations,
          child_of_relations |-> child_of_relations,
          leaves |-> leaves]
    ELSE LET from_node == Head(from_nodes)
             parents == parent_of_relations \ {<<node, from_node>>}
             children == child_of_relations \ {<<from_node, node>>}
         IN drain_from_nodes(
                Tail(from_nodes), node, parents, children,
                IF has_no_children(children, from_node, min, max)
                THEN Append(leaves, from_node) ELSE leaves,
                min, max)

\* while let Some(node) = leaves.pop() { ... }
RECURSIVE pop_leaves(_, _, _, _, _, _)
pop_leaves(leaves, parent_of_relations, child_of_relations, res, min, max) ==
    IF leaves = <<>>
    THEN [parent_of_relations |-> parent_of_relations,
          child_of_relations |-> child_of_relations,
          res |-> res]
    ELSE LET node == leaves[Len(leaves)]
             from_nodes ==
                 into_iter({e[2] : e \in range(parent_of_relations,
                                               <<node, min>>, <<node, max>>)})
             d == drain_from_nodes(from_nodes, node, parent_of_relations,
                                   child_of_relations,
                                   SubSeq(leaves, 1, Len(leaves) - 1), min, max)
         IN pop_leaves(d.leaves, d.parent_of_relations, d.child_of_relations,
                       Append(res, node), min, max)

\* A sequence without the repetitions of its elements.
RECURSIVE dedup(_)
dedup(seq) ==
    IF seq = <<>> THEN <<>>
    ELSE LET rest == dedup(SubSeq(seq, 1, Len(seq) - 1))
             last == seq[Len(seq)]
         IN IF last \in Range(rest) THEN rest ELSE Append(rest, last)

\* The endpoints of a sequence of edges, in the order they arrive.
RECURSIVE endpoints_of(_)
endpoints_of(edges) ==
    IF edges = <<>> THEN <<>>
    ELSE <<Head(edges)[2], Head(edges)[1]>> \o endpoints_of(Tail(edges))

\* Mutant: all_nodes is kept in the order the nodes arrive (a Vec without
\* repetitions) instead of a BTreeSet.
sorts_in_arrival_order(nodes, edges) ==
    LET parent_of_relations == {<<edges[i][2], edges[i][1]>> : i \in DOMAIN edges}
        child_of_relations == {<<edges[i][1], edges[i][2]>> : i \in DOMAIN edges}
        ends == {edges[i][1] : i \in DOMAIN edges} \cup {edges[i][2] : i \in DOMAIN edges}
        all_nodes == dedup(nodes \o endpoints_of(edges))
        has_parent(n) == n \in {e[2] : e \in parent_of_relations}
    IN IF edges = <<>>
       THEN [sorted |-> all_nodes, is_some |-> FALSE, cycle |-> {}]
       ELSE LET l == pop_leaves(SelectSeq(all_nodes, LAMBDA n : ~has_parent(n)),
                                parent_of_relations, child_of_relations,
                                <<>>, Min(ends), Max(ends))
            IN IF l.parent_of_relations # {}
               THEN [sorted |-> l.res, is_some |-> TRUE,
                     cycle |-> {e[1] : e \in l.parent_of_relations}
                               \cup {e[2] : e \in l.parent_of_relations}]
               ELSE [sorted |-> l.res, is_some |-> FALSE, cycle |-> {}]

\* topological_sort(nodes, edges): nodes is a sequence of nodes, edges a
\* sequence of <<from_node, to_node>> = <<importer, imported>>.  The result
\* is the pair (Vec, Option<BTreeSet>): sorted, and cycle with is_some.
topological_sort(nodes, edges) ==
    LET parent_of_relations == {<<edges[i][2], edges[i][1]>> : i \in DOMAIN edges}
        child_of_relations == {<<edges[i][1], edges[i][2]>> : i \in DOMAIN edges}
        ends == {edges[i][1] : i \in DOMAIN edges} \cup {edges[i][2] : i \in DOMAIN edges}
        all_nodes == Range(nodes) \cup ends
    IN IF edges = <<>>
       THEN [sorted |-> into_iter(all_nodes), is_some |-> FALSE, cycle |-> {}]
       ELSE LET min == Min(ends)
                max == Max(ends)
                leaves == into_iter(all_nodes \ {e[2] : e \in parent_of_relations})
                l == pop_leaves(leaves, parent_of_relations, child_of_relations,
                                <<>>, min, max)
            IN IF l.parent_of_relations # {}
               THEN [sorted |-> l.res, is_some |-> TRUE,
                     cycle |-> {e[1] : e \in l.parent_of_relations}
                               \cup {e[2] : e \in l.parent_of_relations}
                               \cup {e[1] : e \in l.child_of_relations}
                               \cup {e[2] : e \in l.child_of_relations}]
               ELSE [sorted |-> l.res, is_some |-> FALSE, cycle |-> {}]

----------------------------------------------------------------------------
(* The file system and codegen/module.rs: Module::from_paths *)

\* What a path of the watched directory holds.  Every path of the model has
\* the watched extension.  A file is described by what compiling it reads:
\*   parses    Ast::parse succeeds
\*   checks    the file has no semantic error of its own (undeclared
\*             parameter, duplicate @param, reserved word, ...)
\*   endpoint  the @endpoint name, or NoEndpoint
\*   imports   the canonical targets of its @import decorators
\*   calls     its statements call every alias it imports
\*   single    it has exactly one statement
Absent == [kind |-> "absent", parses |-> FALSE, checks |-> FALSE,
           endpoint |-> NoEndpoint, imports |-> {}, calls |-> FALSE,
           single |-> FALSE, ver |-> "v1"]
Dir == [kind |-> "dir", parses |-> FALSE, checks |-> FALSE,
        endpoint |-> NoEndpoint, imports |-> {}, calls |-> FALSE,
        single |-> FALSE, ver |-> "v1"]
Source(parses, checks, endpoint, imports, calls, single) ==
    [kind |-> "file", parses |-> parses, checks |-> checks,
     endpoint |-> endpoint, imports |-> imports, calls |-> calls,
     single |-> single, ver |-> "v1"]

\* Path::canonicalize succeeds on what exists.
canonicalize_ok(files, path) == files[path].kind # "absent"

\* File::open + read_to_string succeed on a regular file.
read_ok(files, path) == files[path].kind = "file"

\* Ast::canonicalized_dependencies: the imports whose path canonicalizes.
canonicalized_dependencies(files, path) ==
    {q \in files[path].imports : canonicalize_ok(files, q)}

\* An error of a compile: the file and the stage that failed.
Error(path, stage) == [path |-> path, stage |-> stage]

\* The loop `while to_import.len() != 0` of from_paths, with gen_file_contents
\* and gen_asts: file_contents and asts are the sets of their keys (the text
\* and the Ast of a path are those of files[path]).
RECURSIVE import_loop(_, _, _, _, _, _)
import_loop(files, to_import, file_contents, asts, path_deps, errors) ==
    IF to_import = <<>>
    THEN [file_contents |-> file_contents, asts |-> asts, errors |-> errors]
    ELSE LET asked == Range(to_import)
             read == {q \in asked : read_ok(files, q)}
             contents == file_contents \cup read
             new_asts == {q \in asked : q \in contents /\ files[q].parses}
             failed_imports == {q \in asked : q \in contents /\ ~files[q].parses}
             unimported_paths ==
                 {q \in UNION {canonicalized_dependencies(files, a) : a \in new_asts} :
                     ~(q \in new_asts \/ q \in path_deps \/ q \in failed_imports)}
         IN import_loop(files, into_iter(unimported_paths), contents,
                        asts \cup new_asts,
                        path_deps \cup new_asts \cup failed_imports,
                        errors \cup {Error(q, "io") : q \in asked \ read}
                               \cup {Error(q, "parse") : q \in failed_imports})

\* The edges (importer, imported) of the parsed files, in the order
\* asts.iter() yields them.
RECURSIVE edges_of(_, _)
edges_of(files, ast_seq) ==
    IF ast_seq = <<>> THEN <<>>
    ELSE LET path == Head(ast_seq)
             deps == into_iter(canonicalized_dependencies(files, path))
         IN [i \in DOMAIN deps |-> <<path, deps[i]>>] \o edges_of(files, Tail(ast_seq))

\* Module::new(ast, modules): FrontMatter::new followed by Statements::new.
\* modules maps the paths compiled so far (and the dependencies handed in) to
\* their modules.
Module_new(files, path, modules) ==
    LET file == files[path]
        could_not_import == {q \in file.imports : ~canonicalize_ok(files, q)}
        found == {q \in file.imports \ could_not_import : contains_key(modules, q)}
        not_single == {q \in found : ~modules[q].single}
        undefined_function == IF file.calls THEN file.imports \ found ELSE {}
    IN [ok |-> /\ file.checks
               /\ could_not_import = {}
               /\ not_single = {}
               /\ undefined_function = {},
        module |-> Module(path, file.endpoint, found, file.single, file.ver)]

\* The loop over `sorted` of from_paths: compiles in the sorted order what has
\* been read and parsed.  owned is the set of paths whose module is
\* MixedRef::Owned.
RECURSIVE compile_sorted(_, _, _, _, _, _, _)
compile_sorted(files, sorted, file_contents, asts, modules, owned, errors) ==
    IF sorted = <<>>
    THEN [modules |-> modules, owned |-> owned, errors |-> errors]
    ELSE LET path == Head(sorted)
         IN IF path \in file_contents /\ path \in asts
            THEN LET res == Module_new(files, path, modules)
                 IN IF res.ok
                    THEN compile_sorted(files, Tail(sorted), file_contents,
                                        asts \ {path},
                                        MapPut(modules, path, res.module),
                                        owned \cup {path}, errors)
                    ELSE compile_sorted(files, Tail(sorted), file_contents,
                                        asts \ {path}, modules, owned,
                                        errors \cup {Error(path, "check")})
            ELSE compile_sorted(files, Tail(sorted), file_contents, asts,
                                modules, owned, errors)

\* Module::from_paths(paths, deps): deps is the map of the modules already
\* compiled (EmptyMap for None).  The call passes the parsed files as the
\* nodes of topological_sort.  The result is (new_modules, errors); the list
\* the read, parse and cycle errors were pushed to is `dropped`: the function
\* declares `errors` a second time before the compile loop and returns that
\* one.
from_paths(files, paths, deps) ==
    LET imported == import_loop(files, paths, {}, {}, DOMAIN deps, {})
        sorting == topological_sort(into_iter(imported.asts),
                                    edges_of(files, into_iter(imported.asts)))
        first_errors ==
            imported.errors \cup
            (IF sorting.is_some THEN {Error(Min(sorting.cycle), "cycle")} ELSE {})
        compiled == compile_sorted(files, sorting.sorted, imported.file_contents,
                                   imported.asts, deps, {}, {})
    IN [modules |-> [q \in compiled.owned |-> compiled.modules[q]],
        errors |-> compiled.errors,
        dropped |-> first_errors,
        cycle |-> sorting.cycle]

\* ModuleCollection::import_modules / import_module
import_modules(self, files, paths) == from_paths(files, paths, self.locations)

\* The loop `for (path, module) in modules` of from_directory: every module is
\* inserted, a failing insert is recorded.
RECURSIVE insert_all(_, _, _, _)
insert_all(collection, todo, modules, errors) ==
    IF todo = <<>> THEN [coll |-> collection, errors |-> errors]
    ELSE LET path == Head(todo)
             i == insert(collection, path, modules[path])
         IN insert_all(i.coll, Tail(todo), modules,
                       IF i.ok THEN errors ELSE errors \cup {Error(path, "insert")})

\* ModuleCollection::from_directory: (collection, errors)
from_directory(files) ==
    LET path_bufs == into_iter({q \in DOMAIN files : read_ok(files, q)})
        imported == from_paths(files, path_bufs, EmptyMap)
    IN insert_all(EmptyCollection, into_iter(DOMAIN imported.modules),
                  imported.modules, imported.errors)

----------------------------------------------------------------------------
(* SpecColl: a caller of the ModuleCollection API *)

NoTxn == "none"
NoEvent == [kind |-> "none", path |-> 0, to |-> 0]
NotSorted == [done |-> FALSE, sorted |-> <<>>, is_some |-> FALSE, cycle |-> {}]

\* Modules a caller hands to insert/upsert for a location: compiled at the
\* location's canonical path, with either endpoint or none, and in two
\* versions of the text for endpoint e1.
CallerModules(location) ==
    {Module(IF is_absolute(location) THEN location ELSE 0 - location,
            ev[1], {}, TRUE, ev[2]) :
        ev \in {x \in (Endpoints \cup {NoEndpoint}) \X Versions :
                   x[1] = "e1" \/ x[2] = "v1"}}

\* What fs::canonicalize may return for a location.
Canonicalized(location) ==
    IF is_absolute(location) THEN {location} ELSE {0, 0 - location}

InitCollVars ==
    /\ coll = EmptyCollection
    /\ txnpc = "idle"
    /\ editable = EmptyCollection
    /\ txnOps = 0
    /\ txnLast = NoTxn

IdleColl == InitCollVars
IdleTopo == tnodes = <<>> /\ tedges = <<>> /\ tres = NotSorted

IdleWatch ==
    /\ fs = [q \in AbsPaths |-> Absent]
    /\ fsOps = 0
    /\ queue = <<>>
    /\ lock = "free"
    /\ wpc = "recv"
    /\ wevt = NoEvent
    /\ wfailed = FALSE
    /\ wpre = EmptyCollection
    /\ wnew = EmptyCollection
    /\ rlast = "none"

Callers == 1..MaxCallers
NoModule == Module(0, NoEndpoint, {}, FALSE, "v1")

\* A caller that has not called yet.  ret is what its call returned:
\* [ok |-> "none" | "ok" | "err", module].
IdleCaller ==
    [pc |-> "idle", kind |-> "none", arg |-> 0, missed |-> FALSE,
     compiled |-> FALSE, ret |-> [ok |-> "none", module |-> NoModule]]

\* Per path: how often compile-and-insert ran, how often it succeeded, and
\* whether it ever ran for a path the collection already held.
NoCompiles == [tries |-> 0, oks |-> 0, redundant |-> FALSE]

NotBooted == [pc |-> "start", watch |-> FALSE, ok |-> FALSE, errors |-> {}]

IdleNeed ==
    /\ callers = [c \in Callers |-> IdleCaller]
    /\ compiles = [q \in AbsPaths |-> NoCompiles]

IdleBoot == boot = NotBooted

NotCompiled == [pc |-> "start", modules |-> EmptyMap, errors |-> {},
                dropped |-> {}, cycle |-> {}]

NoParam == [kind |-> "none", name |-> ""]

\* The binder before it is called.
NotBinding ==
    [pc |-> "idle", binder |-> "none", mapping |-> EmptyMap, writer |-> <<>>,
     stack |-> <<>>, params |-> <<>>, steps |-> 0, err |-> "none",
     bindings |-> EmptyMap, auth_bindings |-> EmptyMap, values |-> <<>>]

\* No file has been handed to Module::new.
NotChecked == [pc |-> "idle"]

\* The variables of the specifications of single functions, at rest.
IdleRest ==
    /\ batch = NotCompiled
    /\ bind = NotBinding
    /\ unit = NotChecked
    /\ parse = [pc |-> "idle"]

InitColl ==
    InitCollVars /\ IdleTopo /\ IdleWatch /\ IdleNeed /\ IdleBoot /\ IdleRest

\* self.insert(location, module)
Insert(location, module) ==
    /\ txnpc = "idle"
    /\ coll' = insert(coll, location, module).coll
    /\ txnLast' = NoTxn
    /\ editable' = EmptyCollection
    /\ UNCHANGED <<txnpc, txnOps, notColl>>

\* self.upsert(location, module)
Upsert(location, module, canonical) ==
    /\ txnpc = "idle"
    /\ coll' = upsert(coll, location, module, canonical).coll
    /\ txnLast' = NoTxn
    /\ editable' = EmptyCollection
    /\ UNCHANGED <<txnpc, txnOps, notColl>>

\* self.remove(location)
Remove(location, canonical) ==
    /\ txnpc = "idle"
    /\ coll' = remove(coll, location, canonical).coll
    /\ txnLast' = NoTxn
    /\ editable' = EmptyCollection
    /\ UNCHANGED <<txnpc, txnOps, notColl>>

\* self.transaction(func) is entered: editable = self.clone()
TxnBegin ==
    /\ txnpc = "idle"
    /\ txnpc' = "func"
    /\ editable' = coll
    /\ txnOps' = 0
    /\ txnLast' = NoTxn
    /\ UNCHANGED <<coll, notColl>>

\* func calls insert / upsert / remove on its argument
TxnInsert(location, module) ==
    /\ txnpc = "func"
    /\ txnOps < MaxOps
    /\ editable' = insert(editable, location, module).coll
    /\ txnOps' = txnOps + 1
    /\ UNCHANGED <<coll, txnpc, txnLast, notColl>>

TxnUpsert(location, module, canonical) ==
    /\ txnpc = "func"
    /\ txnOps < MaxOps
    /\ editable' = upsert(editable, location, module, canonical).coll
    /\ txnOps' = txnOps + 1
    /\ UNCHANGED <<coll, txnpc, txnLast, notColl>>

\* A failing upsert inside func whose closure had already removed the entry:
\* func sees the clone as the nested transaction left it.
TxnRemove(location, canonical) ==
    /\ txnpc = "func"
    /\ txnOps < MaxOps
    /\ editable' = remove(editable, location, canonical).coll
    /\ txnOps' = txnOps + 1
    /\ UNCHANGED <<coll, txnpc, txnLast, notColl>>

\* func returns Ok or Err; transaction commits or drops the clone
TxnReturn(ok) ==
    /\ txnpc = "func"
    /\ coll' = transaction(coll, [ok |-> ok, coll |-> editable]).coll
    /\ txnLast' = (IF ok THEN "ok" ELSE "err")
    /\ txnpc' = "idle"
    /\ txnOps' = 0
    /\ UNCHANGED <<editable, notColl>>   \* the dropped clone, kept for inspection

NextColl ==
    \/ \E l \in Paths : \E m \in CallerModules(l) : Insert(l, m)
    \/ \E l \in Paths : \E m \in CallerModules(l) : \E c \in Canonicalized(l) :
          Upsert(l, m, c)
    \/ \E l \in Paths : \E c \in Canonicalized(l) : Remove(l, c)
    \/ TxnBegin
    \/ \E l \in Paths : \E m \in CallerModules(l) : TxnInsert(l, m)
    \/ \E l \in Paths : \E m \in CallerModules(l) : \E c \in Canonicalized(l) :
          TxnUpsert(l, m, c)
    \/ \E l \in Paths : \E c \in Canonicalized(l) : TxnRemove(l, c)
    \/ \E ok \in BOOLEAN : TxnReturn(ok)

SpecColl == InitColl /\ [][NextColl]_vars

----------------------------------------------------------------------------
(* SpecTopo: topological_sort applied to every small graph *)

Nodes == 1..MaxNode

\* A set as a sequence, in some order.
RECURSIVE set_to_seq(_)
set_to_seq(S) ==
    IF S = {} THEN <<>>
    ELSE LET x == CHOOSE y \in S : TRUE IN <<x>> \o set_to_seq(S \ {x})

\* The edge sets of at most MaxEdges edges (self-imports included).
EdgeSets ==
    {{}} \cup {Range(f) : f \in [1..MaxEdges -> Nodes \X Nodes]}

sorted_result(r) ==
    [done |-> TRUE, sorted |-> r.sorted, is_some |-> r.is_some, cycle |-> r.cycle]

InitTopo ==
    /\ IdleColl
    /\ IdleWatch
    /\ IdleNeed
    /\ IdleBoot
    /\ IdleRest
    /\ \E k \in 0..MaxNode : tnodes = into_iter(1..k)
    /\ \E E \in EdgeSets : tedges = set_to_seq(E)
    /\ tres = NotSorted

Sort ==
    /\ ~tres.done
    /\ tres' = sorted_result(topological_sort(tnodes, tedges))
    /\ UNCHANGED <<tnodes, tedges, notTopo>>

NextTopo == Sort

SpecTopo == InitTopo /\ [][NextTopo]_vars

----------------------------------------------------------------------------
(* SpecTopoOrder: topological_sort on node and edge sequences in any order,
   with repetitions *)

OrderNodes == 1..(MaxOrderLen + 1)

\* The sequences of at most n elements of S.
SeqsUpTo(S, n) == UNION {[1..k -> S] : k \in 0..n}

InitTopoOrder ==
    /\ IdleColl
    /\ IdleWatch
    /\ IdleNeed
    /\ IdleBoot
    /\ IdleRest
    /\ tnodes \in SeqsUpTo(OrderNodes, MaxOrderLen)
    /\ tedges \in SeqsUpTo(OrderNodes \X OrderNodes, MaxOrderLen)
    /\ tres = NotSorted

SpecTopoOrder == InitTopoOrder /\ [][NextTopo]_vars

\* C13: the result of topological_sort on sequences of nodes and edges, in
\* any order and with repetitions, is its result on the set of those nodes
\* in ascending order and the set of those edges in one fixed order: the
\* emitted order and the cycle set depend on the two sets alone.
C13_SortDependsOnSetsAlone ==
    tres.done =>
        tres = sorted_result(topological_sort(into_iter(Range(tnodes)),
                                              set_to_seq(Range(tedges))))

\* C13 witness: a graph in which two nodes are ready at once has been sorted
\* from sequences that are not in that fixed order: the nodes descending or
\* repeated, the edges in the other order.
C13_Witness ==
    /\ tres.done
    /\ Len(tnodes) = 2 /\ tnodes[1] >= tnodes[2]
    /\ Len(tedges) = 2 /\ tedges # set_to_seq(Range(tedges))
    /\ tedges[1][1] = tedges[2][1] /\ tedges[1][2] # tedges[2][2]
    /\ ~tres.is_some
    /\ Len(tres.sorted) = 3

\* The transitive closure of a relation, by n rounds of composing it with
\* itself.
RECURSIVE Closure(_, _)
Closure(R, n) ==
    IF n = 0 THEN R
    ELSE Closure(R \cup {<<p[1][1], p[2][2]>> :
                            p \in {q \in R \X R : q[1][2] = q[2][1]}},
                 n - 1)

HasCycle(E) == \E n \in Nodes : <<n, n>> \in Closure(E, MaxNode)

Position(seq, x) == CHOOSE i \in DOMAIN seq : seq[i] = x

\* C10: for every acyclic edge set of (importer, imported) pairs,
\* topological_sort returns no cycle and an order that contains every node of
\* the node set and every edge endpoint exactly once, in which the imported
\* node of every edge comes before its importer.
C10_TopologicalOrder ==
    LET E == Range(tedges)
        all == Range(tnodes) \cup {e[1] : e \in E} \cup {e[2] : e \in E}
    IN (tres.done /\ ~HasCycle(E)) =>
          /\ ~tres.is_some
          /\ Range(tres.sorted) = all
          /\ Len(tres.sorted) = Cardinality(all)
          /\ \A e \in E :
                Position(tres.sorted, e[2]) < Position(tres.sorted, e[1])

\* C10 witness: an acyclic graph with a node that has two imports, a node
\* imported twice and a node outside every edge has been sorted.
C10_Witness ==
    LET E == Range(tedges)
    IN /\ tres.done
       /\ ~HasCycle(E)
       /\ Cardinality(E) >= 3
       /\ \E a, b, c \in Nodes : b # c /\ <<a, b>> \in E /\ <<a, c>> \in E
       /\ \E n \in Range(tnodes) : \A e \in E : e[1] # n /\ e[2] # n
       /\ Len(tres.sorted) = MaxNode

----------------------------------------------------------------------------
(* engine/importer/file_type.rs and watching.rs *)

\* FileType::from(path, ext): path.metadata() fails on what does not exist.
FileType_from(files, path) ==
    IF files[path].kind = "absent" THEN "Other"
    ELSE IF files[path].kind = "dir" THEN "Dir"
    ELSE "RightExtFile"

\* Mutant: a lookup reads the collection without waiting for the Mutex.
lock_ignored(l) == TRUE

\* Mutex::lock returns once nobody holds the guard.
can_lock(l) == l = "free"

\* The closure the watcher hands to transaction: upsert every module, `?` on
\* the first failure.
RECURSIVE upsert_all(_, _, _)
upsert_all(collection, todo, modules) ==
    IF todo = <<>> THEN Ok(collection)
    ELSE LET loc == Head(todo)
             u == upsert(collection, loc, modules[loc], loc)
         IN IF u.ok THEN upsert_all(u.coll, Tail(todo), modules) ELSE Err(u.coll)

DebouncedEvent(kind, path, to) == [kind |-> kind, path |-> path, to |-> to]

\* What a file of the watched directory may be written to hold.
FileContents(path) ==
    {Source(FALSE, FALSE, NoEndpoint, {}, FALSE, FALSE),
     Source(TRUE, TRUE, NoEndpoint, {}, FALSE, FALSE)}
    \cup {Source(TRUE, FALSE, NoEndpoint, imps, TRUE, TRUE) :
            imps \in {{}} \cup {{q} : q \in AbsPaths \ {path}}}
    \cup {Source(TRUE, TRUE, e, imps, TRUE, TRUE) :
            e \in {NoEndpoint, "e1"},
            imps \in {{}} \cup {{q} : q \in AbsPaths \ {path}}}

----------------------------------------------------------------------------
(* SpecWatch: the watched directory, the watcher thread and the readers *)

\* The directory at start: empty, or holding one module file with an endpoint.
InitialDirs ==
    {[q \in AbsPaths |-> Absent],
     [q \in AbsPaths |-> IF q = 1 THEN Source(TRUE, TRUE, "e1", {}, TRUE, TRUE)
                          ELSE Absent]}

\* WatchingInternals::new on the directory as it is at start.
InitWatch ==
    /\ IdleTopo
    /\ IdleNeed
    /\ IdleBoot
    /\ IdleRest
    /\ txnpc = "idle" /\ editable = EmptyCollection /\ txnOps = 0 /\ txnLast = NoTxn
    /\ fs \in InitialDirs
    /\ coll = from_directory(fs).coll
    /\ fsOps = 0
    /\ queue = <<>>
    /\ lock = "free"
    /\ wpc = "recv"
    /\ wevt = NoEvent
    /\ wfailed = FALSE
    /\ wpre = coll
    /\ wnew = coll
    /\ rlast = "none"

\* The environment: someone changes the directory, notify queues the event.
FsChange(files, event) ==
    /\ fsOps < MaxFsOps
    /\ fsOps' = fsOps + 1
    /\ fs' = files
    /\ queue' = Append(queue, event)
    /\ UNCHANGED <<coll, lock, wpc, wevt, wfailed, wpre, wnew, rlast, notWatch>>

\* A file is created or rewritten.
FsWrite(path, content) ==
    /\ fs[path].kind # "dir"
    /\ FsChange([fs EXCEPT ![path] = content],
                DebouncedEvent(IF fs[path].kind = "absent" THEN "Create" ELSE "Write",
                               path, 0))

\* A directory is created, or something changes in it.
FsMkdir(path) ==
    /\ fs[path].kind # "file"
    /\ FsChange([fs EXCEPT ![path] = Dir],
                DebouncedEvent(IF fs[path].kind = "absent" THEN "Create" ELSE "Write",
                               path, 0))

FsChmod(path) ==
    /\ fs[path].kind # "absent"
    /\ FsChange(fs, DebouncedEvent("Chmod", path, 0))

FsRemove(path) ==
    /\ fs[path].kind # "absent"
    /\ FsChange([fs EXCEPT ![path] = Absent], DebouncedEvent("Remove", path, 0))

FsRename(old, new) ==
    /\ old # new
    /\ fs[old].kind # "absent"
    /\ fs[new].kind = "absent"
    /\ FsChange([fs EXCEPT ![old] = Absent, ![new] = fs[old]],
                DebouncedEvent("Rename", old, new))

\* Rescan, NoticeWrite, NoticeRemove ("Notice") and Error events.
FsOther(kind, path) ==
    FsChange(fs, DebouncedEvent(kind, path, 0))

\* rx.recv() followed by the part of listen_event that runs before anything
\* is read or changed: the match on the event, FileType::from, lock().
Recv(next_pc, failed, locked) ==
    /\ wpc = "recv"
    /\ queue # <<>>
    /\ wevt' = Head(queue)
    /\ queue' = Tail(queue)
    /\ wpc' = next_pc
    /\ wfailed' = failed
    /\ wpre' = coll
    /\ lock' = (IF locked THEN "watcher" ELSE lock)
    /\ UNCHANGED <<fsVars, rlast, notWatch>>

\* A watcher that takes the rename of a file for its removal.
rename_removes(evt) == IF evt.kind = "Rename" THEN "Remove" ELSE evt.kind

\* match evt: the arm of listen_event that handles an event.
arm(evt) == evt.kind

\* DebouncedEvent::Error(err, _) => Err(err)?
WatcherError ==
    /\ queue # <<>> /\ arm(Head(queue)) = "Error"
    /\ Recv("recv", TRUE, FALSE)
    /\ UNCHANGED <<coll, wnew>>

\* Rescan | NoticeWrite | NoticeRemove => {}; Rename logs a warning; every
\* other event on a path that FileType::from does not take for a module file.
WatcherIgnore ==
    /\ queue # <<>>
    /\ LET e == Head(queue)
           type == FileType_from(fs, e.path)
       IN \/ arm(e) \in {"Notice", "Rename"}
          \/ arm(e) \in {"Remove", "Chmod", "Create"} /\ type # "RightExtFile"
          \/ arm(e) = "Write" /\ type \notin {"RightExtFile", "Dir"}
    /\ Recv("recv", FALSE, FALSE)
    /\ UNCHANGED <<coll, wnew>>

\* Write(path) on a directory: watcher.watch(path, Recursive)?
WatcherWatchDir(ok) ==
    /\ queue # <<>>
    /\ arm(Head(queue)) = "Write"
    /\ FileType_from(fs, Head(queue).path) = "Dir"
    /\ Recv("recv", ~ok, FALSE)
    /\ UNCHANGED <<coll, wnew>>

\* Remove(path) on a module file: lock(), then guard.remove(path) as far as
\* self.locations.remove(new_loc).
WatcherRemove ==
    /\ queue # <<>>
    /\ arm(Head(queue)) = "Remove"
    /\ FileType_from(fs, Head(queue).path) = "RightExtFile"
    /\ can_lock(lock)
    /\ Recv("remove", FALSE, TRUE)
    /\ LET r == remove(coll, Head(queue).path, Head(queue).path)
       IN /\ wnew' = r.coll
          /\ coll' = [endpoints |-> coll.endpoints, locations |-> r.coll.locations]

\* ... self.endpoints.remove(endpoint), and the guard is dropped.
WatcherRemoveEndpoint ==
    /\ wpc = "remove"
    /\ coll' = [endpoints |-> wnew.endpoints, locations |-> coll.locations]
    /\ lock' = "free"
    /\ wpc' = "recv"
    /\ UNCHANGED <<fsVars, queue, wevt, wfailed, wpre, wnew, rlast, notWatch>>

\* Write | Chmod | Create on a module file: lock()
WatcherLock ==
    /\ queue # <<>>
    /\ arm(Head(queue)) \in {"Write", "Chmod", "Create"}
    /\ FileType_from(fs, Head(queue).path) = "RightExtFile"
    /\ can_lock(lock)
    /\ Recv("import", FALSE, TRUE)
    /\ UNCHANGED <<coll, wnew>>

\* guard.import_module(path), then the closure of guard.transaction runs on
\* the clone.  When it fails the transaction returns Err and `?` leaves
\* listen_event.
WatcherImport ==
    /\ wpc = "import"
    /\ \E imported \in {import_modules(coll, fs, <<wevt.path>>)} :
       \E res \in {upsert_all(coll, into_iter(DOMAIN imported.modules),
                               imported.modules)} :
          /\ wnew' = transaction(coll, res).coll
          /\ wfailed' = (~res.ok \/ imported.errors # {})
          /\ wpc' = (IF res.ok THEN "commit" ELSE "recv")
          /\ lock' = (IF res.ok THEN lock ELSE "free")
    /\ UNCHANGED <<coll, fsVars, queue, wevt, wpre, rlast, notWatch>>

\* transaction: self.endpoints = editable.endpoints
WatcherCommitEndpoints ==
    /\ wpc = "commit"
    /\ coll' = [endpoints |-> wnew.endpoints, locations |-> coll.locations]
    /\ wpc' = "commit_locations"
    /\ UNCHANGED <<fsVars, queue, lock, wevt, wfailed, wpre, wnew, rlast, notWatch>>

\* transaction: self.locations = editable.locations; then errors.len() is
\* looked at and the guard is dropped.
WatcherCommitLocations ==
    /\ wpc = "commit_locations"
    /\ coll' = [endpoints |-> coll.endpoints, locations |-> wnew.locations]
    /\ wpc' = "recv"
    /\ lock' = "free"
    /\ UNCHANGED <<fsVars, queue, wevt, wfailed, wpre, wnew, rlast, notWatch>>

\* What a lookup that gets the lock now observes of the event the watcher
\* handles: the collection as it was before the event ("before"), as it is
\* after it ("after"), or something in between ("partial").
Observed ==
    IF coll = wpre THEN "before" ELSE IF wpc = "recv" THEN "after" ELSE "partial"

\* WatchingImporter::get_module_from_endpoint / get_module_from_location /
\* get_all_endpoints: lock(), read one of the maps, drop the guard.
Lookup(map) ==
    /\ can_lock(lock)
    /\ rlast' = Observed
    /\ UNCHANGED <<coll, fsVars, queue, lock, wpc, wevt, wfailed, wpre, wnew, notWatch>>

get_module_from_endpoint(endpoint) == Lookup(coll.endpoints)
get_module_from_location(location) == Lookup(coll.locations)
get_all_endpoints == Lookup(coll.endpoints)

NextWatch ==
    \/ \E q \in AbsPaths : \E c \in FileContents(q) : FsWrite(q, c)
    \/ \E q \in AbsPaths : FsMkdir(q)
    \/ \E q \in AbsPaths : FsChmod(q)
    \/ \E q \in AbsPaths : FsRemove(q)
    \/ \E q, r \in AbsPaths : FsRename(q, r)
    \/ \E k \in {"Notice", "Error"} : FsOther(k, 1)
    \/ WatcherError
    \/ WatcherIgnore
    \/ \E ok \in BOOLEAN : WatcherWatchDir(ok)
    \/ WatcherRemove
    \/ WatcherRemoveEndpoint
    \/ WatcherLock
    \/ WatcherImport
    \/ WatcherCommitEndpoints
    \/ WatcherCommitLocations
    \/ \E e \in Endpoints : get_module_from_endpoint(e)
    \/ \E l \in AbsPaths : get_module_from_location(l)
    \/ get_all_endpoints

SpecWatch == InitWatch /\ [][NextWatch]_vars

----------------------------------------------------------------------------
(* engine/importer/as_needed.rs *)

\* Module::from_path(path): open and read the file, parse it, Module::new
\* with an empty map of modules.
from_path(files, path) ==
    IF read_ok(files, path) /\ files[path].parses
    THEN Module_new(files, path, EmptyMap)
    ELSE [ok |-> FALSE, module |-> NoModule]

\* collection.insert(location): the one-argument insert that
\* get_module_from_location calls compiles the single file at location and
\* inserts the module under its path and its endpoint.
insert_location(self, files, location) ==
    LET compiled == from_path(files, location)
    IN IF compiled.ok THEN insert(self, location, compiled.module) ELSE Err(self)

\* Mutant: a path that is not in the collection is reported as not found.
returns_on_miss(found) == "done"

\* match collection.locations.get(location): Some(module) => Ok(module),
\* None => compile and insert.
on_location_get(found) == IF found THEN "done" ELSE "insert"

Returned(ok, module) == [ok |-> IF ok THEN "ok" ELSE "err", module |-> module]

----------------------------------------------------------------------------
(* SpecAsNeeded: concurrent callers of one AsNeededImporter *)

\* The directory the importer reads from: every path is absent or holds a
\* file without imports (from_path handles no imports).
DirsOnDemand ==
    {f \in [AbsPaths -> {Absent} \cup UNION {FileContents(q) : q \in AbsPaths}] :
        \A q \in AbsPaths : f[q].imports = {}}

\* AsNeededImporter::default()
InitAsNeeded ==
    /\ IdleColl
    /\ IdleTopo
    /\ IdleBoot
    /\ IdleRest
    /\ IdleNeed
    /\ fs \in DirsOnDemand
    /\ fsOps = 0
    /\ queue = <<>>
    /\ lock = "free"
    /\ wpc = "recv"
    /\ wevt = NoEvent
    /\ wfailed = FALSE
    /\ wpre = EmptyCollection
    /\ wnew = EmptyCollection
    /\ rlast = "none"

\* get_module_from_location(location): self.0.lock()
LocationLock(c, location) ==
    /\ callers[c].pc = "idle"
    /\ can_lock(lock)
    /\ lock' = "caller"
    /\ callers' = [callers EXCEPT ![c].pc = "get", ![c].kind = "location",
                                  ![c].arg = location]
    /\ UNCHANGED <<coll, fs, compiles, notNeed>>

\* ... collection.locations.get(location).cloned(); Some(module) returns it
\* and drops the guard.
LocationGet(c) ==
    /\ callers[c].pc = "get"
    /\ LET location == callers[c].arg
           found == contains_key(coll.locations, location)
           next == on_location_get(found)
       IN /\ callers' = [callers EXCEPT
                 ![c].pc = next,
                 ![c].missed = ~found,
                 ![c].ret = IF found THEN Returned(TRUE, coll.locations[location])
                            ELSE IF next = "done" THEN Returned(FALSE, NoModule)
                            ELSE @]
          /\ lock' = (IF next = "done" THEN "free" ELSE lock)
    /\ UNCHANGED <<coll, fs, compiles, notNeed>>

\* ... None: collection.insert(location.into())?, then
\* collection.locations.get(location), and the guard is dropped.
LocationInsert(c) ==
    /\ callers[c].pc = "insert"
    /\ LET location == callers[c].arg
           res == insert_location(coll, fs, location)
           got == res.ok /\ contains_key(res.coll.locations, location)
       IN /\ coll' = res.coll
          /\ compiles' = [compiles EXCEPT ![location] =
                 [tries |-> @.tries + 1,
                  oks |-> @.oks + (IF res.ok THEN 1 ELSE 0),
                  redundant |-> @.redundant \/ contains_key(coll.locations, location)]]
          /\ callers' = [callers EXCEPT
                 ![c].pc = "done",
                 ![c].compiled = TRUE,
                 ![c].ret = IF got THEN Returned(TRUE, res.coll.locations[location])
                            ELSE Returned(FALSE, NoModule)]
    /\ lock' = "free"
    /\ UNCHANGED <<fs, notNeed>>

\* get_module_from_endpoint(endpoint): lock(), endpoints.get(endpoint) or
\* "endpoint does not exist".
EndpointGet(c, endpoint) ==
    /\ callers[c].pc = "idle"
    /\ can_lock(lock)
    /\ LET found == contains_key(coll.endpoints, endpoint)
       IN callers' = [callers EXCEPT
              ![c].pc = "done", ![c].kind = "endpoint", ![c].arg = endpoint,
              ![c].missed = ~found,
              ![c].ret = IF found THEN Returned(TRUE, coll.endpoints[endpoint])
                         ELSE Returned(FALSE, NoModule)]
    /\ UNCHANGED <<coll, fs, lock, compiles, notNeed>>

\* get_all_endpoints(): lock(), the keys of endpoints.
AllEndpoints(c) ==
    /\ callers[c].pc = "idle"
    /\ can_lock(lock)
    /\ callers' = [callers EXCEPT ![c].pc = "done", ![c].kind = "all",
                                  ![c].ret = Returned(TRUE, NoModule)]
    /\ UNCHANGED <<coll, fs, lock, compiles, notNeed>>

NextAsNeeded ==
    \/ \E c \in Callers : \E l \in AbsPaths : LocationLock(c, l)
    \/ \E c \in Callers : LocationGet(c)
    \/ \E c \in Callers : LocationInsert(c)
    \/ \E c \in Callers : \E e \in Endpoints : EndpointGet(c, e)
    \/ \E c \in Callers : AllEndpoints(c)

SpecAsNeeded == InitAsNeeded /\ [][NextAsNeeded]_vars

----------------------------------------------------------------------------
(* engine/importer/upfront.rs, watching.rs and command/server.rs: boot *)

\* UpfrontImporter::new: Err(errors) when from_directory reported an error.
UpfrontImporter_new(files) ==
    LET res == from_directory(files)
    IN [ok |-> res.errors = {}, coll |-> res.coll, errors |-> res.errors]

\* WatchingInternals::new: the errors of from_directory are printed into a
\* buffer (print_error(&mut buf)?), then the watcher is created
\* (create_watcher(..)?) and the importer is returned.
WatchingInternals_new(files, print_ok, watcher_ok) ==
    LET res == from_directory(files)
    IN [ok |-> (res.errors = {} \/ print_ok) /\ watcher_ok,
        coll |-> res.coll, errors |-> res.errors]

\* create_evaluator(directory, extension, watch)
create_evaluator(files, watch, print_ok, watcher_ok) ==
    IF watch THEN WatchingInternals_new(files, print_ok, watcher_ok)
    ELSE UpfrontImporter_new(files)

----------------------------------------------------------------------------
(* SpecBoot: the server boots on a directory *)

\* The directories of the model: every path is absent, a directory, or a file
\* of any content.
Directories ==
    {f \in [AbsPaths -> {Absent, Dir} \cup UNION {FileContents(q) : q \in AbsPaths}] :
        \A q \in AbsPaths : f[q].kind = "file" => f[q] \in FileContents(q)}

InitBoot ==
    /\ IdleColl
    /\ IdleTopo
    /\ IdleNeed
    /\ IdleBoot
    /\ IdleRest
    /\ fs \in Directories
    /\ fsOps = 0
    /\ queue = <<>>
    /\ lock = "free"
    /\ wpc = "recv"
    /\ wevt = NoEvent
    /\ wfailed = FALSE
    /\ wpre = EmptyCollection
    /\ wnew = EmptyCollection
    /\ rlast = "none"

\* create_evaluator returns: coll is the collection of the importer it
\* returned, if it returned one.
Boot(watch, print_ok, watcher_ok) ==
    /\ boot.pc = "start"
    /\ \E res \in {create_evaluator(fs, watch, print_ok, watcher_ok)} :
          /\ boot' = [pc |-> "done", watch |-> watch, ok |-> res.ok,
                      errors |-> res.errors]
          /\ coll' = (IF res.ok THEN res.coll ELSE coll)
    /\ UNCHANGED <<fs, notBoot>>

BootUpfront == Boot(FALSE, TRUE, TRUE)
BootWatching(print_ok, watcher_ok) == Boot(TRUE, print_ok, watcher_ok)

NextBoot ==
    \/ BootUpfront
    \/ \E print_ok, watcher_ok \in BOOLEAN : BootWatching(print_ok, watcher_ok)

SpecBoot == InitBoot /\ [][NextBoot]_vars

----------------------------------------------------------------------------
(* SpecCompile: Module::from_paths on a batch of files that import each other *)

Files == 1..MaxFile

\* What a path of the batch holds: something that cannot be read as a file,
\* text that does not parse, or a module that imports (and calls) up to two
\* other files of the batch.
BatchFiles(path) ==
    {Dir, Source(FALSE, FALSE, NoEndpoint, {}, FALSE, FALSE)}
    \cup {Source(TRUE, TRUE, NoEndpoint, imps, TRUE, TRUE) :
            imps \in {i \in SUBSET (Files \ {path}) : Cardinality(i) <= 2}}

Batches ==
    {f \in [Files -> UNION {BatchFiles(q) : q \in Files}] :
        \A q \in Files : f[q] \in BatchFiles(q)}

InitCompile ==
    /\ IdleColl
    /\ IdleTopo
    /\ IdleNeed
    /\ IdleBoot
    /\ IdleRest
    /\ fs \in Batches
    /\ fsOps = 0
    /\ queue = <<>>
    /\ lock = "free"
    /\ wpc = "recv"
    /\ wevt = NoEvent
    /\ wfailed = FALSE
    /\ wpre = EmptyCollection
    /\ wnew = EmptyCollection
    /\ rlast = "none"

\* Module::from_paths(paths, None) on every file of the batch.
Compile ==
    /\ batch.pc = "start"
    /\ \E res \in {from_paths(fs, into_iter(Files), EmptyMap)} :
          batch' = [pc |-> "done", modules |-> res.modules, errors |-> res.errors,
                    dropped |-> res.dropped, cycle |-> res.cycle]
    /\ UNCHANGED <<fs, notCompile>>

NextCompile == Compile

SpecCompile == InitCompile /\ [][NextCompile]_vars

----------------------------------------------------------------------------
(* Claims about the ModuleCollection API, checked under SpecColl *)

\* C1: transaction(func) is all-or-nothing.  When func returns Err, both maps
\* of the collection are what they were before the call, whatever func did to
\* its argument (the clone) through insert, upsert and remove; when func
\* returns Ok, both maps are replaced together by the clone's maps.
C1_TransactionAllOrNothing ==
    [][(txnpc = "func" /\ txnpc' = "idle") =>
          /\ txnLast' = "err" => coll' = coll
          /\ txnLast' = "ok" =>
                /\ coll'.endpoints = editable.endpoints
                /\ coll'.locations = editable.locations]_vars

\* C1 witness: a transaction has returned Err after func had changed both
\* maps of its clone, and the collection kept entries the clone had lost.
C1_Witness ==
    /\ txnpc = "idle"
    /\ txnLast = "err"
    /\ editable.endpoints # coll.endpoints
    /\ editable.locations # coll.locations
    /\ DOMAIN coll.locations # {}

\* C2: every endpoint-keyed entry is also path-keyed and vice versa: each
\* module stored under an endpoint is the module stored under some path, and
\* each path-stored module that declares an endpoint is the module stored
\* under that endpoint.
Consistent(c) ==
    /\ \A e \in DOMAIN c.endpoints :
          \E l \in DOMAIN c.locations : c.locations[l] = c.endpoints[e]
    /\ \A l \in DOMAIN c.locations :
          c.locations[l].endpoint # NoEndpoint =>
             /\ contains_key(c.endpoints, c.locations[l].endpoint)
             /\ c.endpoints[c.locations[l].endpoint] = c.locations[l]

C2_EndpointsAndPathsAgree == Consistent(coll)

----------------------------------------------------------------------------
(* Claims about the watching importer, checked under SpecWatch *)

WriteKinds == {"Write", "Create", "Chmod"}

\* The watcher has finished handling wevt and waits for the next event.
Handled(kinds) == wpc = "recv" /\ wevt.kind \in kinds

\* C3: when the watcher has handled a write, create or chmod event for a
\* module file and a compile reported an error or an upsert failed, the
\* shared collection is exactly what it was before the event.
C3_FailedEventLeavesCollection ==
    (Handled(WriteKinds) /\ wfailed) => coll = wpre

\* C4: after the watcher has processed a Remove event for a file whose module
\* was in the collection, the module is stored neither under its path nor
\* under its endpoint.
C4_RemovePurgesBoth ==
    (Handled({"Remove"}) /\ contains_key(wpre.locations, wevt.path)) =>
        /\ ~contains_key(coll.locations, wevt.path)
        /\ wpre.locations[wevt.path].endpoint # NoEndpoint =>
              ~contains_key(coll.endpoints, wpre.locations[wevt.path].endpoint)

\* C5: a lookup observes the collection as it was before the event the
\* watcher handles or as it is after it, never with only one of the two maps
\* updated.
C5_LookupsSeeWholeEvents == rlast # "partial"

\* C5 witness: a lookup has observed the collection after a write event that
\* changed both maps.
C5_Witness ==
    /\ rlast = "after"
    /\ Handled(WriteKinds)
    /\ coll.endpoints # wpre.endpoints
    /\ coll.locations # wpre.locations

\* C6: in every reachable state a lookup can complete without waiting for
\* the watcher thread, also while the watcher reads and compiles a file.
C6_LookupsNeverWait == can_lock(lock)

----------------------------------------------------------------------------
(* Claims about the as-needed importer, checked under SpecAsNeeded *)

\* The callers whose get_module_from_location(location) has returned.
ReturnedFor(location) ==
    {c \in Callers : /\ callers[c].pc = "done"
                     /\ callers[c].kind = "location"
                     /\ callers[c].arg = location}

\* Every caller that returned Ok for location returned the module the
\* collection holds for it.
SameModule(location) ==
    \A c \in ReturnedFor(location) :
        callers[c].ret.ok = "ok" =>
            /\ contains_key(coll.locations, location)
            /\ callers[c].ret.module = coll.locations[location]

\* C7 (as stated): once calls of get_module_from_location for a path that was
\* not in the collection have returned, compile-and-insert has run exactly
\* once for that path, and every caller that returned Ok returned that one
\* module.
C7_CompilesExactlyOnce ==
    \A l \in AbsPaths :
        ReturnedFor(l) # {} => compiles[l].tries = 1 /\ SameModule(l)

\* C7 (amended): compile-and-insert succeeds at most once per path and never
\* runs for a path the collection already holds; it runs once per caller for
\* as long as it fails, so it has run at least once when a call has
\* returned, once more than it succeeded at most per failed caller; and every
\* caller that returned Ok returned the one module the collection holds.
C7_CompilesOnceUntilSuccess ==
    \A l \in AbsPaths :
        /\ compiles[l].oks <= 1
        /\ ~compiles[l].redundant
        /\ ReturnedFor(l) # {} => compiles[l].tries >= 1
        /\ compiles[l].tries - compiles[l].oks =
              Cardinality({c \in ReturnedFor(l) : callers[c].ret.ok = "err"})
        /\ SameModule(l)

\* C7 witness: every caller has called get_module_from_location for the same
\* missing path, all returned Ok, and compile-and-insert ran once.
C7_Witness ==
    \E l \in AbsPaths :
        /\ ReturnedFor(l) = Callers
        /\ \A c \in Callers : callers[c].ret.ok = "ok"
        /\ \E c \in Callers : callers[c].missed
        /\ compiles[l].tries = 1

\* C8 (as stated): a lookup that missed, by path or by endpoint, has compiled
\* and inserted before it returned.
C8_EveryMissCompiles ==
    \A c \in Callers :
        (callers[c].pc = "done" /\ callers[c].missed) => callers[c].compiled

\* C8 (amended): a lookup by path that missed has run compile-and-insert
\* before it returned, and when it returned Ok the collection holds the path;
\* a lookup by endpoint never compiles: when it missed it returned an error.
C8_OnlyPathMissCompiles ==
    \A c \in Callers :
        callers[c].pc = "done" =>
            /\ (callers[c].kind = "location" /\ callers[c].missed) =>
                  /\ callers[c].compiled
                  /\ callers[c].ret.ok = "ok" =>
                        contains_key(coll.locations, callers[c].arg)
            /\ callers[c].kind = "endpoint" =>
                  /\ ~callers[c].compiled
                  /\ callers[c].missed => callers[c].ret.ok = "err"

\* C8 witness: one lookup by path missed, compiled and returned Ok; one
\* lookup by endpoint missed and returned an error.
C8_Witness ==
    \E c, d \in Callers :
        /\ callers[c].pc = "done" /\ callers[c].kind = "location"
        /\ callers[c].missed /\ callers[c].compiled /\ callers[c].ret.ok = "ok"
        /\ callers[d].pc = "done" /\ callers[d].kind = "endpoint"
        /\ callers[d].missed /\ callers[d].ret.ok = "err"

----------------------------------------------------------------------------
(* Claims about server boot, checked under SpecBoot *)

\* C9: when create_evaluator has returned an importer, scanning and
\* compiling the directory reported no error and the collection is not
\* partial: it holds every file of the directory.
C9_BootRefusesOnError ==
    (boot.pc = "done" /\ boot.ok) =>
        /\ boot.errors = {}
        /\ \A q \in AbsPaths : read_ok(fs, q) => contains_key(coll.locations, q)

----------------------------------------------------------------------------
(* Claims about the batch compile, checked under SpecCompile *)

\* The import edges (importer, imported) among the files that parse.
ImportEdges(files) ==
    {e \in Files \X Files : files[e[1]].parses /\ e[2] \in files[e[1]].imports}

\* The files that lie on an import cycle.
OnCycle(files) ==
    {q \in Files : <<q, q>> \in Closure(ImportEdges(files), MaxFile)}

\* C11: when the files of a batch import each other in a cycle, compiling
\* the batch returns a cyclic-dependency error that names the files of the
\* cycle, and no module for any file on the cycle; when all files form one
\* ring the error names exactly the files of the ring.
C11_CycleIsReported ==
    (batch.pc = "done" /\ OnCycle(fs) # {}) =>
        /\ \E e \in batch.errors : e.stage = "cycle"
        /\ OnCycle(fs) \subseteq batch.cycle
        /\ OnCycle(fs) = Files => batch.cycle = Files
        /\ \A q \in OnCycle(fs) : ~contains_key(batch.modules, q)

\* C12: when the batch contains an import cycle, from_paths returns no
\* module at all, also not for the files that are not on the cycle.
C12_CycleAbortsBatch ==
    (batch.pc = "done" /\ OnCycle(fs) # {}) => DOMAIN batch.modules = {}

\* ---------------------------------------------------------------------------
\* Binding a statement: src/query.rs build_query_statement and its recursive
\* helper, and src/ast/module.rs Statement::bind.  One step of SpecBind is one
\* iteration of the binder's loop over the interpolations of a statement, or
\* the entry into or the return from the statement of an imported module.
\* ---------------------------------------------------------------------------

BindNames == {"x", "y"}

\* Ord of String on the names of the model.
NameOrder == <<"x", "y">>

ParamType_Param(name) == [kind |-> "Param", name |-> name]

ParamType_Auth(name) == [kind |-> "Auth", name |-> name]

\* #[derive(Ord)] on ParamType: Auth before Param, then by name.
ParamType_rank(param) ==
    (IF param.kind = "Auth" THEN 0 ELSE Len(NameOrder))
    + (CHOOSE i \in DOMAIN NameOrder : NameOrder[i] = param.name)

\* The sequences without repetition over S of length at most n.
DistinctSeqs(S, n) ==
    {seq \in UNION {[1..k -> S] : k \in 0..n} :
        \A i, j \in DOMAIN seq : seq[i] = seq[j] => i = j}

\* A placeholder that skips a number.
skips_a_number(mapping) == Cardinality(DOMAIN mapping) + 2

\* let cur = mapping.len() + 1
next_placeholder(mapping) == Cardinality(DOMAIN mapping) + 1

\* A binder that numbers every occurrence anew.
numbers_every_occurrence(mapping, param) ==
    MapPut(mapping, param, Cardinality(DOMAIN mapping) + 1)

\* if !mapping.contains_key(&param) { mapping.insert(param, mapping.len() + 1) }
bind_param(mapping, param) ==
    IF param \in DOMAIN mapping
    THEN mapping
    ELSE MapPut(mapping, param, next_placeholder(mapping))

\* The last position of a name among the formal parameters: collecting the
\* zipped pairs into a BTreeMap keeps the last pair of a key.
last_position(formals, name) ==
    Max({i \in DOMAIN formals : formals[i] = name})

\* A call-site that lets the names of the caller show through.
inherits_caller_names(param_mapping, formals, args) ==
    [name \in Range(formals) \cup DOMAIN param_mapping |->
        IF name \in DOMAIN param_mapping
        THEN param_mapping[name]
        ELSE param_mapping[args[last_position(formals, name)]]]

\* imported.params.iter().zip(params.iter()).map(..).collect(), once every
\* argument is known to be in param_mapping.
new_param_mapping(param_mapping, formals, args) ==
    [name \in Range(formals) |->
        param_mapping[args[last_position(formals, name)]]]

\* module.front_matter.params mapped to ParamType::Param.
top_param_mapping(params) ==
    [name \in Range(params) |-> ParamType_Param(name)]

\* mapping.into_iter().map(|tup| (tup.1, tup.0)).collect(): of two
\* parameters with one number the greater one stays.
inv_mapping(mapping) ==
    [n \in {mapping[p] : p \in DOMAIN mapping} |->
        CHOOSE p \in DOMAIN mapping :
            /\ mapping[p] = n
            /\ \A q \in DOMAIN mapping :
                   mapping[q] = n => ParamType_rank(q) <= ParamType_rank(p)]

\* The end of build_query_statement: the check of the numbers and the list
\* of parameters in the order of their numbers.
collect_params(mapping) ==
    LET inv == inv_mapping(mapping)
        keys == into_iter(DOMAIN inv)
    IN IF \E i \in DOMAIN keys : keys[i] # i
       THEN [ok |-> FALSE, params |-> <<>>]
       ELSE [ok |-> TRUE, params |-> [i \in DOMAIN keys |-> inv[keys[i]]]]

\* The frame of one call of the helper: the param_mapping it was given, and
\* the formal parameters and the arguments of the call-site it came from.
Frame(param_mapping, formals, args) ==
    [param_mapping |-> param_mapping, formals |-> formals, args |-> args]

\* A placeholder written at a depth of the call stack: its number, the
\* ParamType the binder looked up, the name the statement used, and what
\* that name stands for in the top module.
Placeholder(n, param, name, actual, at) ==
    [t |-> "placeholder", n |-> n, param |-> param, name |-> name,
     actual |-> actual, depth |-> at]

LiteralText == [t |-> "literal", n |-> 0, param |-> NoParam, name |-> "",
                actual |-> NoParam, depth |-> 0]

\* What a name used at depth d stands for in the top module, followed
\* through the formal parameters and the arguments of the call-sites on the
\* stack and not through the binder's param_mapping.
RECURSIVE caller_param(_, _, _)
caller_param(stack, d, name) ==
    IF d = 1
    THEN IF name \in Range(stack[1].formals)
         THEN ParamType_Param(name) ELSE NoParam
    ELSE IF name \in Range(stack[d].formals)
         THEN caller_param(stack, d - 1,
                  stack[d].args[CHOOSE i \in DOMAIN stack[d].formals :
                                    stack[d].formals[i] = name])
         ELSE NoParam

BindFailed(b, err) == [b EXCEPT !.pc = "failed", !.err = err]

depth == Len(bind.stack)

top == bind.stack[depth]

InitBind ==
    /\ IdleColl
    /\ IdleTopo
    /\ IdleWatch
    /\ IdleNeed
    /\ IdleBoot
    /\ batch = NotCompiled
    /\ unit = NotChecked
    /\ parse = [pc |-> "idle"]
    /\ \E params \in DistinctSeqs(BindNames, 2), binder \in {"query", "ast"} :
           bind = [NotBinding EXCEPT
                      !.pc = "loop", !.binder = binder,
                      !.stack = <<Frame(top_param_mapping(params),
                                        params, params)>>]

Walking == bind.pc = "loop" /\ bind.steps < MaxInterp

\* Interp::Literal
BindLiteral ==
    /\ Walking
    /\ bind' = [bind EXCEPT !.writer = Append(@, LiteralText),
                            !.steps = @ + 1]
    /\ UNCHANGED <<fs, notBind>>

\* Interp::AuthParam, the same in both binders.
BindAuthParam ==
    /\ Walking
    /\ \E name \in BindNames :
         \E mapping \in {bind_param(bind.mapping, ParamType_Auth(name))} :
           bind' = [bind EXCEPT
               !.mapping = mapping,
               !.params = IF bind.binder = "ast"
                             /\ ParamType_Auth(name) \notin DOMAIN bind.mapping
                          THEN Append(@, ParamType_Auth(name)) ELSE @,
               !.writer = Append(@, Placeholder(mapping[ParamType_Auth(name)],
                                                ParamType_Auth(name), name,
                                                ParamType_Auth(name), depth)),
               !.steps = @ + 1]
    /\ UNCHANGED <<fs, notBind>>

\* Interp::Param of build_query_statement_helper: the name goes through
\* param_mapping.
BindParam ==
    /\ Walking /\ bind.binder = "query"
    /\ \E name \in BindNames :
         IF name \notin DOMAIN top.param_mapping
         THEN bind' = BindFailed(bind, "could not map paramter")
         ELSE \E mapping \in {bind_param(bind.mapping, top.param_mapping[name])} :
                bind' = [bind EXCEPT
                    !.mapping = mapping,
                    !.writer = Append(@, Placeholder(
                                   mapping[top.param_mapping[name]],
                                   top.param_mapping[name], name,
                                   caller_param(bind.stack, depth, name),
                                   depth)),
                    !.steps = @ + 1]
    /\ UNCHANGED <<fs, notBind>>

\* Interp::Param of Statement::bind: the name is the parameter.
BindParamFlat ==
    /\ Walking /\ bind.binder = "ast"
    /\ \E name \in BindNames :
         \E mapping \in {bind_param(bind.mapping, ParamType_Param(name))} :
           bind' = [bind EXCEPT
               !.mapping = mapping,
               !.params = IF ParamType_Param(name) \notin DOMAIN bind.mapping
                          THEN Append(@, ParamType_Param(name)) ELSE @,
               !.writer = Append(@, Placeholder(mapping[ParamType_Param(name)],
                                                ParamType_Param(name), name,
                                                ParamType_Param(name), depth)),
               !.steps = @ + 1]
    /\ UNCHANGED <<fs, notBind>>

\* What looking up the function of a call-site can come to.
CallSiteLookups == {"found", "no import", "importer error", "no statement"}

\* Interp::CallSite up to the recursive call: the import, the module, the
\* number of arguments, the arguments, the first statement.
BindCallSite ==
    /\ Walking /\ bind.binder = "query" /\ depth <= MaxDepth
    /\ \E lookup \in CallSiteLookups, formals \in DistinctSeqs(BindNames, 2),
          args \in UNION {[1..k -> BindNames] : k \in 0..2} :
         bind' =
           IF lookup = "no import"
           THEN BindFailed(bind, "could not find import")
           ELSE IF lookup = "importer error"
           THEN BindFailed(bind, "could not import module")
           ELSE IF Len(args) # Len(formals)
           THEN BindFailed(bind, "number of parameters to do not match")
           ELSE IF \E i \in DOMAIN args : args[i] \notin DOMAIN top.param_mapping
           THEN BindFailed(bind, "could not map paramter")
           ELSE IF lookup = "no statement"
           THEN BindFailed(bind, "should have one statement")
           ELSE [bind EXCEPT
                    !.stack = Append(@, Frame(
                        new_param_mapping(top.param_mapping, formals, args),
                        formals, args)),
                    !.steps = @ + 1]
    /\ UNCHANGED <<fs, notBind>>

\* The statement of the imported module is at its end: the helper returns
\* to the loop of its caller.
BindReturn ==
    /\ bind.pc = "loop" /\ depth > 1
    /\ bind' = [bind EXCEPT !.stack = SubSeq(@, 1, depth - 1)]
    /\ UNCHANGED <<fs, notBind>>

\* The top statement is at its end: build_query_statement checks the
\* numbers and returns the parameters.
BindFinish ==
    /\ bind.pc = "loop" /\ depth = 1 /\ bind.binder = "query"
    /\ \E res \in {collect_params(bind.mapping)} :
         bind' = IF res.ok
                 THEN [bind EXCEPT !.pc = "built", !.params = res.params]
                 ELSE BindFailed(bind, "not all variable bindings were set")
    /\ UNCHANGED <<fs, notBind>>

\* Statement::bind returns the text and the parameters it pushed.
BindFinishFlat ==
    /\ bind.pc = "loop" /\ bind.binder = "ast"
    /\ bind' = [bind EXCEPT !.pc = "built"]
    /\ UNCHANGED <<fs, notBind>>

\* A value of the request body or of the claims of the auth token.
Binding(from, name) == [from |-> from, name |-> name]

\* A BTreeMap of bindings for the names of S, all from one origin.
BindingsOf(from, S) == [name \in S |-> Binding(from, name)]

\* auth_bindings: None
NoAuthBindings == [name \in {"none"} |-> Binding("none", "none")]

\* The request bodies and the auth bindings of the model.
RequestBindings == {BindingsOf("request", S) : S \in {{"x"}, BindNames}}

AuthBindings ==
    {NoAuthBindings} \cup {BindingsOf("auth", S) : S \in {{"x"}, BindNames}}

\* A binder that takes every parameter from the request.
binds_from_request(binder, param, bindings, auth_bindings) ==
    IF param.name \in DOMAIN bindings
    THEN [ok |-> TRUE, value |-> bindings[param.name], err |-> "none"]
    ELSE [ok |-> FALSE, value |-> Binding("none", "none"),
          err |-> "parameter does not exist"]

\* The closure of bind_params (query.rs) and of Evaluator::evaluate: a
\* Param is looked up in bindings, an Auth in auth_bindings, which must be
\* there.
bind_one(binder, param, bindings, auth_bindings) ==
    IF param.kind = "Param"
    THEN IF param.name \in DOMAIN bindings
         THEN [ok |-> TRUE, value |-> bindings[param.name], err |-> "none"]
         ELSE [ok |-> FALSE, value |-> Binding("none", "none"),
               err |-> "parameter does not exist"]
    ELSE IF auth_bindings = NoAuthBindings
    THEN [ok |-> FALSE, value |-> Binding("none", "none"),
          err |-> IF binder = "query" THEN "must have auth token"
                  ELSE "must be authorized"]
    ELSE IF param.name \in DOMAIN auth_bindings
    THEN [ok |-> TRUE, value |-> auth_bindings[param.name], err |-> "none"]
    ELSE [ok |-> FALSE, value |-> Binding("none", "none"),
          err |-> "parameter does not exist"]

\* bind_params: the values of the parameters in their order, or the error
\* of the first parameter that has none.
bind_params(binder, params, bindings, auth_bindings) ==
    LET each == [i \in DOMAIN params |->
                    bind_one(binder, params[i], bindings, auth_bindings)]
        failed == {i \in DOMAIN params : ~each[i].ok}
    IN IF failed = {}
       THEN [ok |-> TRUE, values |-> [i \in DOMAIN params |-> each[i].value],
             err |-> "none"]
       ELSE [ok |-> FALSE, values |-> <<>>, err |-> each[Min(failed)].err]

\* evaluate: the parameters of the statement that was built are bound to
\* the request's bindings and to the auth bindings, if there are any.
BindParams ==
    /\ bind.pc = "built"
    /\ \E bindings \in RequestBindings, auth_bindings \in AuthBindings :
         \E res \in {bind_params(bind.binder, bind.params, bindings, auth_bindings)} :
           bind' = [bind EXCEPT
               !.pc = IF res.ok THEN "bound" ELSE "unbound",
               !.bindings = bindings,
               !.auth_bindings = auth_bindings,
               !.values = res.values,
               !.err = res.err]
    /\ UNCHANGED <<fs, notBind>>

NextBind ==
    \/ BindLiteral
    \/ BindAuthParam
    \/ BindParam
    \/ BindParamFlat
    \/ BindCallSite
    \/ BindReturn
    \/ BindFinish
    \/ BindFinishFlat
    \/ BindParams

SpecBind == InitBind /\ [][NextBind]_vars

\* ---------------------------------------------------------------------------
\* Claims about binding (SpecBind)
\* ---------------------------------------------------------------------------

\* The positions of the placeholders in the text written so far.
Placeholders == {i \in DOMAIN bind.writer : bind.writer[i].t = "placeholder"}

\* The distinct ParamTypes of the placeholders up to position i.
SeenUpTo(i) == {bind.writer[j].param : j \in {k \in Placeholders : k <= i}}

\* The first placeholder of the ParamType of placeholder i.
FirstOccurrence(i) ==
    Min({j \in Placeholders : bind.writer[j].param = bind.writer[i].param})

\* The ParamTypes of the placeholders in the order they were first seen.
FirstSeen ==
    LET firsts == into_iter({i \in Placeholders : FirstOccurrence(i) = i})
    IN [k \in DOMAIN firsts |-> bind.writer[firsts[k]].param]

\* C14: in both binders, two placeholders carry the same number exactly when
\* they stand for the same ParamType, the k-th distinct ParamType met has the
\* number k, and the parameter list returned is the list of the ParamTypes
\* in first-seen order.
C14_SameParameterSameNumber ==
    /\ \A i, j \in Placeholders :
           (bind.writer[i].param = bind.writer[j].param)
               <=> (bind.writer[i].n = bind.writer[j].n)
    /\ \A i \in Placeholders :
           bind.writer[i].n = Cardinality(SeenUpTo(FirstOccurrence(i)))
    /\ bind.pc = "built" => bind.params = FirstSeen

\* A statement like id, email, id has been bound.
C14_Witness ==
    /\ bind.pc = "built"
    /\ \E i, j, k \in Placeholders :
           /\ i < j /\ j < k
           /\ bind.writer[i].param = bind.writer[k].param
           /\ bind.writer[i].param # bind.writer[j].param
           /\ bind.writer[i].n = 1 /\ bind.writer[j].n = 2
           /\ bind.writer[k].n = 1
           /\ Len(bind.params) = 2

\* C15: when build_query_statement succeeds, nested call-sites included, the
\* numbers written into the text are exactly 1..n for the n parameters it
\* returns and the i-th parameter is the ParamType numbered i; and it never
\* fails with "not all variable bindings were set".
C15_NumbersAreContiguous ==
    bind.binder = "query" =>
        /\ bind.err # "not all variable bindings were set"
        /\ bind.pc = "built" =>
               /\ {bind.writer[i].n : i \in Placeholders} = 1..Len(bind.params)
               /\ \A i \in Placeholders :
                      bind.params[bind.writer[i].n] = bind.writer[i].param

\* A statement with a call-site was built with two parameters, one of them
\* first numbered inside the imported statement.
C15_Witness ==
    /\ bind.binder = "query"
    /\ bind.pc = "built"
    /\ Len(bind.params) = 2
    /\ \E i, j \in Placeholders :
           /\ bind.writer[i].depth = 1 /\ bind.writer[i].n = 1
           /\ bind.writer[j].depth = 2 /\ bind.writer[j].n = 2

\* C16: a call-site inlines the imported statement with each formal
\* parameter standing for the caller's ParamType of the argument at its
\* position, at every depth: a placeholder written for a name gets the
\* ParamType and the number of the parameter of the top module the name
\* stands for, whatever the caller's own parameters are called; and a
\* number once written is still the number of its ParamType.
C16_FormalsBoundToArguments ==
    bind.binder = "query" =>
        \A i \in Placeholders :
            /\ bind.writer[i].param = bind.writer[i].actual
            /\ bind.mapping[bind.writer[i].param] = bind.writer[i].n
            /\ \A j \in Placeholders :
                   bind.writer[j].actual = bind.writer[i].actual
                       => bind.writer[j].n = bind.writer[i].n

\* The top module has parameters x and y, numbers x, and calls with y a
\* module whose formal parameter is x: inside, x got the number of y.
C16_Witness ==
    /\ bind.binder = "query"
    /\ bind.pc = "built"
    /\ \E i, j \in Placeholders :
           /\ i < j
           /\ bind.writer[i].depth = 1 /\ bind.writer[i].name = "x"
           /\ bind.writer[i].n = 1
           /\ bind.writer[j].depth > 1 /\ bind.writer[j].name = "x"
           /\ bind.writer[j].param = ParamType_Param("y")
           /\ bind.writer[j].n = 2

\* ---------------------------------------------------------------------------
\* Compiling one parsed file: src/codegen/ir/front_matter.rs FrontMatter::new,
\* src/codegen/ir/statement.rs Statements::new, src/codegen/ir/
\* reserved_words.rs and src/codegen/module.rs Module::new; and the compile
\* of src/ast/module.rs Module::parse, which knows no imports.
\* ---------------------------------------------------------------------------

RESERVED_WORDS == {"auth", "import", "param", "throw", "endpoint"}

\* A ParseError by its kind and the word or name it is about.
ParseError(kind, word) == [kind |-> kind, word |-> word]

\* A check that has forgotten one of the words.
forgets_throw(words) ==
    SelectSeq([i \in DOMAIN words |-> ParseError("ReservedWordError", words[i])],
              LAMBDA e : e.word \in RESERVED_WORDS \ {"throw"})

\* reserved_words.rs check_reserved_words: one error for every word of the
\* iterator that is reserved, in the order of the iterator.
check_reserved_words(words) ==
    SelectSeq([i \in DOMAIN words |-> ParseError("ReservedWordError", words[i])],
              LAMBDA e : e.word \in RESERVED_WORDS)

\* The decorators of the syntax tree.
Import(name, file) == [d |-> "Import", name |-> name, file |-> file, auth |-> "None"]

Auth(settings) == [d |-> "Auth", name |-> "", file |-> "", auth |-> settings]

Endpoint(name) == [d |-> "Endpoint", name |-> name, file |-> "", auth |-> "None"]

Param(name) == [d |-> "Param", name |-> name, file |-> "", auth |-> "None"]

\* The interpolations of the syntax tree.
Literal(text) == [i |-> "Literal", name |-> text, args |-> <<>>]

InterpParam(name) == [i |-> "Param", name |-> name, args |-> <<>>]

AuthParam(name) == [i |-> "AuthParam", name |-> name, args |-> <<>>]

CallSite(func, args) == [i |-> "CallSite", name |-> func, args |-> args]

\* FrontMatter::check_reserved_words: the import aliases, the endpoint names
\* and the parameter names; an Auth decorator has no name to check.
FrontMatter_check_reserved_words(decorators) ==
    LET named == SelectSeq(decorators, LAMBDA dec : dec.d # "Auth")
    IN check_reserved_words([i \in DOMAIN named |-> named[i].name])

\* decorators.sort_by_key: imports, auth, endpoint, parameters; the sort is
\* stable.
sort_by_key(decorators) ==
    SelectSeq(decorators, LAMBDA dec : dec.d = "Import")
    \o SelectSeq(decorators, LAMBDA dec : dec.d = "Auth")
    \o SelectSeq(decorators, LAMBDA dec : dec.d = "Endpoint")
    \o SelectSeq(decorators, LAMBDA dec : dec.d = "Param")

NoFrontMatter ==
    [endpoint |-> "None", params |-> <<>>, imports |-> EmptyMap,
     auth_settings |-> "None"]

\* The locals of FrontMatter::new before its loop.
FrontMatterLocals(errors) ==
    [endpoint |-> "None", params |-> <<>>, import_map |-> EmptyMap,
     auth_settings |-> "None", deps |-> <<>>, errors |-> errors,
     returned |-> FALSE]

\* Result::Err(..)? inside the loop: the function returns this one error.
ReturnErr(acc, reason) ==
    [acc EXCEPT !.returned = TRUE, !.errors = <<ParseError(reason, "")>>]

\* The files an import can name: what canonicalize() finds on disk.
OnDisk == {"one.sql", "secure.sql", "two.sql", "pending.sql"}

\* One iteration of the loop of FrontMatter::new over a decorator.
front_matter_step(acc, dec, modules) ==
    IF dec.d = "Import"
    THEN LET e1 == IF dec.name \in DOMAIN acc.import_map
                   THEN Append(acc.errors,
                               ParseError("name already used for import", dec.name))
                   ELSE acc.errors
         IN IF dec.file \notin OnDisk
            THEN [acc EXCEPT !.errors =
                     Append(e1, ParseError("could not import module", dec.name))]
            ELSE IF dec.file \notin DOMAIN modules
            THEN [acc EXCEPT !.errors = e1]
            ELSE [acc EXCEPT
                     !.errors = IF modules[dec.file].statements # 1
                                THEN Append(e1, ParseError(
                                         "more than a single statement", dec.name))
                                ELSE e1,
                     !.deps = Append(@, [name |-> dec.name,
                                         module |-> modules[dec.file]]),
                     !.import_map = MapPut(@, dec.name,
                                        [location |-> dec.file,
                                         params |-> modules[dec.file].params])]
    ELSE IF dec.d = "Auth"
    THEN IF acc.auth_settings # "None"
         THEN ReturnErr(acc, "multiple auth declarations detected")
         ELSE [acc EXCEPT !.auth_settings = dec.auth]
    ELSE IF dec.d = "Endpoint"
    THEN IF acc.endpoint # "None"
         THEN ReturnErr(acc, "multiple endpoint declarations detected")
         ELSE [acc EXCEPT !.endpoint = dec.name]
    ELSE IF dec.name \in Range(acc.params)
    THEN ReturnErr(acc, "parameter already declared")
    ELSE IF dec.name \in DOMAIN acc.import_map
    THEN ReturnErr(acc, "parameter is used for an import")
    ELSE [acc EXCEPT !.params = Append(@, dec.name)]

\* The loop of FrontMatter::new from decorator i on.
RECURSIVE front_matter_loop(_, _, _, _)
front_matter_loop(acc, decorators, i, modules) ==
    IF i > Len(decorators) \/ acc.returned
    THEN acc
    ELSE front_matter_loop(front_matter_step(acc, decorators[i], modules),
                           decorators, i + 1, modules)

\* An import whose module has auth settings is taken in without a word.
auth_is_inherited(auth_settings, deps) == <<>>

\* front_matter.rs:157-168: without auth settings of its own, a module gets
\* one error for every dependency that has auth settings.
import_requires_auth(auth_settings, deps) ==
    IF auth_settings = "None"
    THEN LET needing == SelectSeq(deps,
                            LAMBDA dep : dep.module.auth_settings # "None")
         IN [i \in DOMAIN needing |->
                ParseError("import requires auth", needing[i].name)]
    ELSE <<>>

\* FrontMatter::new: [ok, errors, front_matter].
FrontMatter_new(decorators, modules) ==
    LET sorted == sort_by_key(decorators)
        acc == front_matter_loop(
                   FrontMatterLocals(FrontMatter_check_reserved_words(sorted)),
                   sorted, 1, modules)
        errors == IF acc.returned
                  THEN acc.errors
                  ELSE acc.errors \o import_requires_auth(acc.auth_settings,
                                                          acc.deps)
    IN IF errors = <<>>
       THEN [ok |-> TRUE, errors |-> <<>>,
             front_matter |-> [endpoint |-> acc.endpoint,
                               params |-> acc.params,
                               imports |-> acc.import_map,
                               auth_settings |-> acc.auth_settings]]
       ELSE [ok |-> FALSE, errors |-> errors, front_matter |-> NoFrontMatter]

\* sql.iter().flat_map(|stmt| stmt.0.iter()): the interpolations of all
\* statements, in order.
RECURSIVE flat_map(_)
flat_map(sql) ==
    IF sql = <<>> THEN <<>> ELSE Head(sql) \o flat_map(Tail(sql))

\* The words of one interpolation that Statements::check_reserved_words
\* looks at.
interp_words(interp) ==
    IF interp.i = "CallSite" THEN <<interp.name>> \o interp.args
    ELSE <<interp.name>>

RECURSIVE words_of(_)
words_of(interps) ==
    IF interps = <<>> THEN <<>>
    ELSE interp_words(Head(interps)) \o words_of(Tail(interps))

\* Statements::check_reserved_words
Statements_check_reserved_words(sql) ==
    check_reserved_words(words_of(flat_map(sql)))

\* A check that does not count the arguments of a call-site.
ignores_arity(front_matter, interp) ==
    IF interp.i = "CallSite"
    THEN (IF interp.name \notin DOMAIN front_matter.imports
          THEN <<ParseError("UndefinedFunctionError", interp.name)>>
          ELSE <<>>)
         \o LET unknown == SelectSeq(interp.args,
                               LAMBDA arg : arg \notin Range(front_matter.params))
            IN [k \in DOMAIN unknown |->
                   ParseError("UndefinedArgumentError", unknown[k])]
    ELSE IF interp.i = "Param" /\ interp.name \notin Range(front_matter.params)
    THEN <<ParseError("UndefinedParameterError", interp.name)>>
    ELSE <<>>

\* The errors check_for_errors pushes for one interpolation.
interp_errors(front_matter, interp) ==
    IF interp.i = "CallSite"
    THEN (IF interp.name \notin DOMAIN front_matter.imports
          THEN <<ParseError("UndefinedFunctionError", interp.name)>>
          ELSE IF Len(front_matter.imports[interp.name].params) # Len(interp.args)
          THEN <<ParseError("WrongNumberArgumentsError", interp.name)>>
          ELSE <<>>)
         \o LET unknown == SelectSeq(interp.args,
                               LAMBDA arg : arg \notin Range(front_matter.params))
            IN [k \in DOMAIN unknown |->
                   ParseError("UndefinedArgumentError", unknown[k])]
    ELSE IF interp.i = "Param" /\ interp.name \notin Range(front_matter.params)
    THEN <<ParseError("UndefinedParameterError", interp.name)>>
    ELSE <<>>

RECURSIVE interps_errors(_, _)
interps_errors(front_matter, interps) ==
    IF interps = <<>> THEN <<>>
    ELSE interp_errors(front_matter, Head(interps))
         \o interps_errors(front_matter, Tail(interps))

\* statement.rs:113-127: an auth parameter in a module without auth
\* settings is an error.
auth_without_decorator(front_matter, sql) ==
    IF /\ \E k \in DOMAIN flat_map(sql) : flat_map(sql)[k].i = "AuthParam"
       /\ front_matter.auth_settings = "None"
    THEN <<ParseError("used auth variable without declaring auth", "")>>
    ELSE <<>>

\* Statements::check_for_errors
check_for_errors(front_matter, sql) ==
    interps_errors(front_matter, flat_map(sql))
    \o auth_without_decorator(front_matter, sql)
    \o Statements_check_reserved_words(sql)

\* Module::new on a syntax tree: the front matter, and only when that is
\* Ok the statements.
Module_from_ast(ast, modules) ==
    LET fm == FrontMatter_new(ast.decorators, modules)
    IN IF ~fm.ok
       THEN fm
       ELSE LET errors == check_for_errors(fm.front_matter, ast.statements)
            IN IF errors # <<>>
               THEN [ok |-> FALSE, errors |-> errors,
                     front_matter |-> NoFrontMatter]
               ELSE fm

\* One iteration of the loop of the older Module::parse over a decorator,
\* in the order of the file.
parse_step(acc, dec) ==
    IF dec.d = "Auth"
    THEN IF acc.auth_settings # "None"
         THEN ReturnErr(acc, "multiple auth declarations detected")
         ELSE [acc EXCEPT !.auth_settings = dec.auth]
    ELSE IF dec.d = "Param"
    THEN IF dec.name \in Range(acc.params)
         THEN ReturnErr(acc, "multiple same parameters declarations detected")
         ELSE [acc EXCEPT !.params = Append(@, dec.name)]
    ELSE IF acc.endpoint # "None"
    THEN ReturnErr(acc, "multiple endpoint declarations detected")
    ELSE [acc EXCEPT !.endpoint = dec.name]

RECURSIVE parse_loop(_, _, _)
parse_loop(acc, decorators, i) ==
    IF i > Len(decorators) \/ acc.returned
    THEN acc
    ELSE parse_loop(parse_step(acc, decorators[i]), decorators, i + 1)

\* src/ast/module.rs Module::parse after the text is read: the decorators,
\* the statements against the parameters (the first undefined parameter
\* ends the parse), and auth settings set to VerifyToken(None) when an auth
\* parameter is used and none were declared.
Module_parse(ast) ==
    LET acc == parse_loop(FrontMatterLocals(<<>>), ast.decorators, 1)
        interps == flat_map(ast.statements)
        undefined == SelectSeq(interps,
                         LAMBDA interp : /\ interp.i = "Param"
                                         /\ interp.name \notin Range(acc.params))
        has_auth == \E k \in DOMAIN interps : interps[k].i = "AuthParam"
    IN IF acc.returned
       THEN [ok |-> FALSE, errors |-> acc.errors, front_matter |-> NoFrontMatter]
       ELSE IF undefined # <<>>
       THEN [ok |-> FALSE,
             errors |-> <<ParseError("UndefinedParameterError",
                                     undefined[1].name)>>,
             front_matter |-> NoFrontMatter]
       ELSE [ok |-> TRUE, errors |-> <<>>,
             front_matter |-> [endpoint |-> acc.endpoint,
                               params |-> acc.params,
                               imports |-> EmptyMap,
                               auth_settings |->
                                   IF has_auth /\ acc.auth_settings = "None"
                                   THEN "VerifyToken(None)"
                                   ELSE acc.auth_settings]]

\* The modules compiled before the file at hand, by location: one with a
\* parameter, one with auth settings, one with two statements.
Library ==
    [file \in {"one.sql", "secure.sql", "two.sql"} |->
        IF file = "one.sql"
        THEN [params |-> <<"x">>, auth_settings |-> "None", statements |-> 1]
        ELSE IF file = "secure.sql"
        THEN [params |-> <<>>, auth_settings |-> "VerifyToken(None)",
              statements |-> 1]
        ELSE [params |-> <<>>, auth_settings |-> "None", statements |-> 2]]

\* The names of one file: x and another name, reserved or not.
NamePools == {{"x", "y"}} \cup {{"x", w} : w \in RESERVED_WORDS}

\* Every decorator over the names of a pool.
Decorators(pool) ==
    {Import(name, file) : name \in pool, file \in OnDisk \cup {"gone.sql"}}
    \cup {Auth(settings) : settings \in {"VerifyToken(None)", "SetToken"}}
    \cup {Endpoint(name) : name \in pool}
    \cup {Param(name) : name \in pool}

\* The decorators of the files whose statements vary.
HeadDecorators(pool) ==
    {Import(name, "one.sql") : name \in pool \ {"x"}}
    \cup {Auth("VerifyToken(None)")}
    \cup {Param(name) : name \in pool}

\* Every interpolation over the names of a pool.
Interps(pool) ==
    {Literal("select")}
    \cup {InterpParam(name) : name \in pool}
    \cup {AuthParam(name) : name \in pool}
    \cup {CallSite(func, args) :
            func \in pool, args \in UNION {[1..k -> pool] : k \in 0..2}}

\* A syntax tree of one statement.
Ast(decorators, statement) ==
    [decorators |-> decorators, statements |-> <<statement>>]

\* The older compile has no imports and no call-sites.
Importless(ast) ==
    /\ \A k \in DOMAIN ast.decorators : ast.decorators[k].d # "Import"
    /\ \A k \in DOMAIN flat_map(ast.statements) :
           flat_map(ast.statements)[k].i # "CallSite"

InitUnit ==
    /\ IdleColl
    /\ IdleTopo
    /\ IdleWatch
    /\ IdleNeed
    /\ IdleBoot
    /\ batch = NotCompiled
    /\ bind = NotBinding
    /\ parse = [pc |-> "idle"]
    /\ \E pool \in NamePools :
           \* any front matter over a plain statement
           \/ \E k \in 0..MaxDecorators :
                 \E decorators \in [1..k -> Decorators(pool)] :
                   unit = [pc |-> "parsed",
                           ast |-> Ast(decorators, <<Literal("select")>>)]
           \* a small front matter over any statement
           \/ \E k \in 0..MaxDecorators, n \in 1..MaxStatement :
                 \E decorators \in [1..k -> HeadDecorators(pool)],
                    statement \in [1..n -> Interps(pool)] :
                   unit = [pc |-> "parsed", ast |-> Ast(decorators, statement)]

\* Module::new(ast, &modules)
CompileUnit ==
    /\ unit.pc = "parsed"
    /\ \E res \in {Module_from_ast(unit.ast, Library)} :
           unit' = [pc |-> "compiled", ast |-> unit.ast, by |-> "codegen",
                    result |-> res]
    /\ UNCHANGED <<fs, notUnit>>

\* Module::parse of src/ast/module.rs on the same file.
ParseUnit ==
    /\ unit.pc = "parsed"
    /\ Importless(unit.ast)
    /\ \E res \in {Module_parse(unit.ast)} :
           unit' = [pc |-> "compiled", ast |-> unit.ast, by |-> "ast",
                    result |-> res]
    /\ UNCHANGED <<fs, notUnit>>

NextUnit ==
    \/ CompileUnit
    \/ ParseUnit

SpecUnit == InitUnit /\ [][NextUnit]_vars

\* ---------------------------------------------------------------------------
\* Claims about compiling one file (SpecUnit)
\* ---------------------------------------------------------------------------

CompiledBy(by) == unit.pc = "compiled" /\ unit.by = by

\* The decorators of a kind in the file at hand, and its interpolations.
DecoratorsOf(kind) ==
    {unit.ast.decorators[k] : k \in {j \in DOMAIN unit.ast.decorators :
                                        unit.ast.decorators[j].d = kind}}

InterpsOf(kind) ==
    {flat_map(unit.ast.statements)[k] :
        k \in {j \in DOMAIN flat_map(unit.ast.statements) :
                  flat_map(unit.ast.statements)[j].i = kind}}

\* The compiled modules a name is declared to import.
ImportedAs(func) ==
    {Library[dec.file] :
        dec \in {d \in DecoratorsOf("Import") :
                    d.name = func /\ d.file \in DOMAIN Library}}

\* A call-site whose number of arguments is not that of the parameters of
\* the module its function imports.
WrongCount(call) ==
    \E module \in ImportedAs(call.name) : Len(module.params) # Len(call.args)

\* A call-site to a name no decorator imports, or with an argument no
\* decorator declares.
Undeclared(call) ==
    \/ \A dec \in DecoratorsOf("Import") : dec.name # call.name
    \/ \E k \in DOMAIN call.args :
           \A dec \in DecoratorsOf("Param") : dec.name # call.args[k]

WithAuth(ast) ==
    [ast EXCEPT !.decorators = <<Auth("VerifyToken(None)")>> \o @]

\* What the compile that ran makes of a syntax tree.
CompileAs(by, ast) ==
    IF by = "codegen" THEN Module_from_ast(ast, Library) ELSE Module_parse(ast)

\* C18: a module without @auth decorator whose body uses an auth parameter,
\* and which compiles once an @auth decorator is added, compiles as it is,
\* and its auth settings are VerifyToken(None).
C18_AuthIsImplied ==
    /\ unit.pc = "compiled"
    /\ DecoratorsOf("Auth") = {}
    /\ InterpsOf("AuthParam") # {}
    /\ CompileAs(unit.by, WithAuth(unit.ast)).ok
    => /\ unit.result.ok
       /\ unit.result.front_matter.auth_settings = "VerifyToken(None)"

\* C19: a module without @auth decorator that imports a compiled module
\* with auth settings does not compile; and a module that compiles without
\* @auth decorator has no auth settings.
C19_AuthIsNotInherited ==
    CompiledBy("codegen") /\ DecoratorsOf("Auth") = {} =>
        /\ (\E dec \in DecoratorsOf("Import") :
                /\ dec.file \in DOMAIN Library
                /\ Library[dec.file].auth_settings # "None")
               => ~unit.result.ok
        /\ unit.result.ok => unit.result.front_matter.auth_settings = "None"

\* A module whose only decorator imports secure.sql got the one error that
\* the import requires auth.
C19_Witness ==
    /\ CompiledBy("codegen")
    /\ \E dec \in DecoratorsOf("Import") :
           /\ unit.ast.decorators = <<dec>>
           /\ dec.file = "secure.sql"
           /\ unit.result.errors = <<ParseError("import requires auth", dec.name)>>

\* A reserved word declared as a parameter, an endpoint or an import alias.
Declares(w) ==
    \E dec \in DecoratorsOf("Import") \cup DecoratorsOf("Endpoint")
                \cup DecoratorsOf("Param") : dec.name = w

\* A reserved word used as a parameter, an auth parameter, the function of
\* a call-site or an argument of a call-site.
Uses(w) ==
    \/ \E interp \in InterpsOf("Param") \cup InterpsOf("AuthParam")
                   \cup InterpsOf("CallSite") : interp.name = w
    \/ \E call \in InterpsOf("CallSite") : w \in Range(call.args)

\* A name that is not reserved in the place of each reserved word.
Fresh(name) ==
    CASE name = "auth" -> "auth_"
      [] name = "import" -> "import_"
      [] name = "param" -> "param_"
      [] name = "throw" -> "throw_"
      [] name = "endpoint" -> "endpoint_"
      [] OTHER -> name

\* The file with every reserved word replaced by a name of its own.
Unreserved(ast) ==
    [decorators |-> [k \in DOMAIN ast.decorators |->
                        [ast.decorators[k] EXCEPT !.name = Fresh(@)]],
     statements |-> [n \in DOMAIN ast.statements |->
                        [k \in DOMAIN ast.statements[n] |->
                            IF ast.statements[n][k].i = "Literal"
                            THEN ast.statements[n][k]
                            ELSE [ast.statements[n][k] EXCEPT
                                     !.name = Fresh(@),
                                     !.args = [a \in DOMAIN @ |-> Fresh(@[a])]]]]]

DuplicateParam ==
    \E j, k \in DOMAIN unit.ast.decorators :
        /\ j # k
        /\ unit.ast.decorators[j].d = "Param"
        /\ unit.ast.decorators[k] = unit.ast.decorators[j]

\* A parameter used in a statement that no decorator declares.
UndeclaredParam(interp) ==
    \A dec \in DecoratorsOf("Param") : dec.name # interp.name

\* C21: one compile of a file returns every problem of the file: the
\* reserved-word error of each reserved word it declares, the error of a
\* parameter declared twice, and the undefined-parameter error of each
\* parameter a statement uses without a declaration, whatever else is wrong.
C21_ErrorsAreAccumulated ==
    CompiledBy("codegen") =>
        /\ \A w \in RESERVED_WORDS :
               Declares(w) => ParseError("ReservedWordError", w)
                                  \in Range(unit.result.errors)
        /\ DuplicateParam => ParseError("parameter already declared", "")
                                 \in Range(unit.result.errors)
        /\ \A interp \in InterpsOf("Param") :
               UndeclaredParam(interp)
                   => ParseError("UndefinedParameterError", interp.name)
                          \in Range(unit.result.errors)

\* ---------------------------------------------------------------------------
\* More claims about the multi-file compile (SpecCompile)
\* ---------------------------------------------------------------------------

\* A file that parses, calls what it imports and imports a file that gives
\* no module: its check fails with an undefined function.
CallsMissingImport(files, path) ==
    /\ files[path].parses
    /\ \E q \in files[path].imports : ~files[q].parses

\* C22: from_paths returns an error for every path of the batch that could
\* not be read, for every file that did not parse, for every file whose
\* check failed when there is no cycle, and the cyclic-dependency error
\* when there is a cycle.
C22_NoFailureIsMissing ==
    batch.pc = "done" =>
        /\ \A q \in Files : fs[q].kind # "file" => Error(q, "io") \in batch.errors
        /\ \A q \in Files :
               fs[q].kind = "file" /\ ~fs[q].parses
                   => Error(q, "parse") \in batch.errors
        /\ \A q \in Files :
               OnCycle(fs) = {} /\ CallsMissingImport(fs, q)
                   => Error(q, "check") \in batch.errors
        /\ OnCycle(fs) # {} => \E e \in batch.errors : e.stage = "cycle"

\* ---------------------------------------------------------------------------
\* More claims about compiling one file (SpecUnit)
\* ---------------------------------------------------------------------------

\* C23: a module does not compile when the target of one of its imports is
\* not on disk, is not among the compiled modules, or is a compiled module
\* of more than one statement, whether or not a statement calls the import.
C23_ImportsAreCompiledFirst ==
    CompiledBy("codegen") =>
        \A dec \in DecoratorsOf("Import") :
            (dec.file \notin DOMAIN Library \/ Library[dec.file].statements # 1)
                => ~unit.result.ok

\* The positions of the decorators of a kind in the file at hand.
PositionsOf(kind) ==
    {k \in DOMAIN unit.ast.decorators : unit.ast.decorators[k].d = kind}

\* A name declared both as a parameter and as an import alias.
ParamIsImport ==
    \E p \in DecoratorsOf("Param"), i \in DecoratorsOf("Import") : p.name = i.name

\* The decorators in the opposite textual order.
Reversed(decorators) ==
    [k \in DOMAIN decorators |-> decorators[Len(decorators) + 1 - k]]

\* What FrontMatter::new makes of the decorators of the file at hand.
BuiltFrontMatter == FrontMatter_new(unit.ast.decorators, Library)

\* The front matter that was returned is well formed.
FrontMatterIsWellFormed ==
    BuiltFrontMatter.ok =>
        /\ \A j, k \in DOMAIN BuiltFrontMatter.front_matter.params :
               BuiltFrontMatter.front_matter.params[j]
                   = BuiltFrontMatter.front_matter.params[k] => j = k
        /\ Range(BuiltFrontMatter.front_matter.params)
               \cap DOMAIN BuiltFrontMatter.front_matter.imports = {}
        /\ Cardinality(PositionsOf("Auth")) <= 1
        /\ Cardinality(PositionsOf("Endpoint")) <= 1

\* C24: a front matter returned by FrontMatter::new has distinct parameters,
\* no name that is a parameter and an import alias, and comes from at most
\* one Auth and one Endpoint decorator; a decorator list with a repeated
\* parameter, a parameter named like an import alias, two Auth or two
\* Endpoint decorators yields an error; in whatever order the decorators
\* are written.
C24_FrontMatterIsWellFormed ==
    CompiledBy("codegen") =>
        /\ FrontMatterIsWellFormed
        /\ (\/ DuplicateParam
            \/ ParamIsImport
            \/ Cardinality(PositionsOf("Auth")) > 1
            \/ Cardinality(PositionsOf("Endpoint")) > 1)
               => /\ ~BuiltFrontMatter.ok
                  /\ ~FrontMatter_new(Reversed(unit.ast.decorators), Library).ok

\* ---------------------------------------------------------------------------
\* Parsing the statements of a source text: src/codegen/ast/sql.rs
\* parse_statements under src/codegen/ast/ast.rs Ast::parse, and the older
\* src/ast/sql.rs parse_sql_statements under src/ast/module.rs Module::parse.
\* A text is a sequence of lexemes: a word, white space, the separator, a
\* parameter, an auth parameter and a call-site.
\* ---------------------------------------------------------------------------

Lexemes == {"w", " ", ";", "@p", "@auth.p", "@f()"}

\* The interpolation a lexeme that is not literal text lexes to.
Interp_of(lexeme) ==
    IF lexeme = "@p" THEN InterpParam("p")
    ELSE IF lexeme = "@auth.p" THEN AuthParam("p")
    ELSE CallSite("f", <<>>)

\* parse_token yields Word, Space, StringLiteral or Other: text that goes
\* into the literal under construction.
IsText(lexeme) == lexeme \in {"w", " "}

\* The fold of parse_sql_statement over the tokens of one statement: text
\* is collected in builder and pushed as one Literal before a parameter, an
\* auth parameter or a call-site, and at the end.
RECURSIVE fold_tokens(_, _, _)
fold_tokens(tokens, builder, statement) ==
    IF tokens = <<>>
    THEN IF builder = <<>> THEN statement ELSE Append(statement, Literal(builder))
    ELSE IF IsText(Head(tokens))
    THEN fold_tokens(Tail(tokens), Append(builder, Head(tokens)), statement)
    ELSE fold_tokens(Tail(tokens), <<>>,
             Append(IF builder = <<>> THEN statement
                    ELSE Append(statement, Literal(builder)),
                    Interp_of(Head(tokens))))

\* The number of tokens parse_token accepts from the start of the input:
\* everything up to the next separator.
RECURSIVE many_tokens(_)
many_tokens(input) ==
    IF input = <<>> \/ Head(input) = ";" THEN 0
    ELSE 1 + many_tokens(Tail(input))

\* The outcome of a parser: Ok with a value and the rest of the input,
\* Err::Error, or Err::Failure.
Parsed(value, rest) == [res |-> "Ok", value |-> value, rest |-> rest]

ParserError(input) == [res |-> "Error", value |-> <<>>, rest |-> input]

ParserFailure(input, reason) == [res |-> reason, value |-> <<>>, rest |-> input]

\* src/codegen/ast/sql.rs parse_sql_statement: fold_many1 of parse_token.
parse_sql_statement(input) ==
    IF many_tokens(input) = 0
    THEN ParserError(input)
    ELSE Parsed(fold_tokens(SubSeq(input, 1, many_tokens(input)), <<>>, <<>>),
                SubSeq(input, many_tokens(input) + 1, Len(input)))

\* src/ast/sql.rs parse_sql_statement: the same fold, but a parameter that
\* is not in params_set is a Failure.
ast_parse_sql_statement(params_set, input) ==
    IF many_tokens(input) = 0
    THEN ParserError(input)
    ELSE IF \E k \in 1..many_tokens(input) :
                input[k] \in {"@p", "@f()"} /\ "p" \notin params_set
    THEN ParserFailure(input, "UndefinedParameterError")
    ELSE Parsed(fold_tokens(SubSeq(input, 1, many_tokens(input)), <<>>, <<>>),
                SubSeq(input, many_tokens(input) + 1, Len(input)))

\* The parser of one statement of either revision.
element(by, params_set, input) ==
    IF by = "codegen" THEN parse_sql_statement(input)
    ELSE ast_parse_sql_statement(params_set, input)

\* lex_end_statement: one separator.
lex_end_statement(input) ==
    IF input # <<>> /\ Head(input) = ";"
    THEN Parsed(<<>>, Tail(input))
    ELSE ParserError(input)

\* fold_many1(lex_end_statement, ..): one separator or more.
RECURSIVE end_statements(_)
end_statements(input) ==
    IF lex_end_statement(input).res # "Ok" THEN ParserError(input)
    ELSE IF lex_end_statement(Tail(input)).res # "Ok"
    THEN Parsed(<<>>, Tail(input))
    ELSE end_statements(Tail(input))

\* The loop of nom's separated_list1 after the first element: when the
\* separator or the element after it fails with Error the list ends before
\* that separator.
RECURSIVE separated_list_loop(_, _, _, _)
separated_list_loop(by, params_set, i, res) ==
    LET sep == end_statements(i)
    IN IF sep.res # "Ok"
       THEN Parsed(res, i)
       ELSE LET next == element(by, params_set, sep.rest)
            IN IF next.res = "Error" THEN Parsed(res, i)
               ELSE IF next.res # "Ok" THEN next
               ELSE separated_list_loop(by, params_set, next.rest,
                                        Append(res, next.value))

\* separated_list1(fold_many1(lex_end_statement), parse_sql_statement)
separated_list1(by, params_set, input) ==
    LET first == element(by, params_set, input)
    IN IF first.res # "Ok" THEN first
       ELSE separated_list_loop(by, params_set, first.rest, <<first.value>>)

\* A literal of white space only.
IsWhitespace(interp) ==
    interp.i = "Literal" /\ \A k \in DOMAIN interp.name : interp.name[k] = " "

\* src/codegen/ast/sql.rs StatementSpan::is_empty
StatementSpan_is_empty(statement) ==
    \A k \in DOMAIN statement :
        IF statement[k].i = "Literal" THEN IsWhitespace(statement[k])
        ELSE IF statement[k].i = "CallSite" THEN TRUE
        ELSE FALSE

\* src/ast/module.rs Statement::is_empty
Statement_is_empty(statement) ==
    \A k \in DOMAIN statement :
        IF statement[k].i = "Literal" THEN IsWhitespace(statement[k])
        ELSE FALSE

\* is_empty of either revision.
is_empty(by, statement) ==
    IF by = "codegen" THEN StatementSpan_is_empty(statement)
    ELSE Statement_is_empty(statement)

\* parse_statements / parse_sql_statements: the list, one more separator
\* if there is one, the empty statements filtered out, and an error when
\* nothing is left.
parse_statements(by, params_set, og_input) ==
    LET list == separated_list1(by, params_set, og_input)
    IN IF list.res # "Ok" THEN list
       ELSE LET input == IF lex_end_statement(list.rest).res = "Ok"
                         THEN lex_end_statement(list.rest).rest
                         ELSE list.rest
                res == SelectSeq(list.value, LAMBDA st : ~is_empty(by, st))
            IN IF res = <<>>
               THEN ParserFailure(og_input, "this module has no statements")
               ELSE Parsed(res, input)

\* Ast::parse and Module::parse after the decorators of the text: the
\* statements, then the end of the text.
parse_file(by, params_set, input) ==
    LET statements == parse_statements(by, params_set, input)
    IN IF statements.res # "Ok" THEN statements
       ELSE IF statements.rest # <<>>
       THEN ParserFailure(statements.rest,
                          IF by = "codegen" THEN "expected end of file"
                          ELSE "unexpected token")
       ELSE statements

\* Every text of up to MaxSource lexemes.
InitParse ==
    /\ IdleColl
    /\ IdleTopo
    /\ IdleWatch
    /\ IdleNeed
    /\ IdleBoot
    /\ batch = NotCompiled
    /\ bind = NotBinding
    /\ unit = NotChecked
    /\ \E n \in 0..MaxSource :
         \E input \in [1..n -> Lexemes] :
           parse = [pc |-> "read", input |-> input]

\* Ast::parse(file_loc, input)
AstParse ==
    /\ parse.pc = "read"
    /\ \E res \in {parse_file("codegen", {}, parse.input)} :
           parse' = [pc |-> "parsed", input |-> parse.input, by |-> "codegen",
                     params_set |-> {}, result |-> res]
    /\ UNCHANGED <<fs, notParse>>

\* Module::parse(input) of src/ast, which has no call-sites, with the
\* parameter p declared or not.
ModuleParse ==
    /\ parse.pc = "read"
    /\ \A k \in DOMAIN parse.input : parse.input[k] # "@f()"
    /\ \E params_set \in {{}, {"p"}} :
         \E res \in {parse_file("ast", params_set, parse.input)} :
           parse' = [pc |-> "parsed", input |-> parse.input, by |-> "ast",
                     params_set |-> params_set, result |-> res]
    /\ UNCHANGED <<fs, notParse>>

NextParse ==
    \/ AstParse
    \/ ModuleParse

SpecParse == InitParse /\ [][NextParse]_vars

\* ---------------------------------------------------------------------------
\* Claims about parsing the statements (SpecParse)
\* ---------------------------------------------------------------------------

\* The pieces of a text between its separators.
RECURSIVE Segments(_)
Segments(input) ==
    IF many_tokens(input) = Len(input) THEN <<input>>
    ELSE <<SubSeq(input, 1, many_tokens(input))>>
         \o Segments(SubSeq(input, many_tokens(input) + 2, Len(input)))

HasText(segment) == \E k \in DOMAIN segment : segment[k] # " "

\* The statements of the non-empty pieces of a text, in the order of the text.
NonEmptyStatements(input) ==
    LET kept == SelectSeq(Segments(input), HasText)
    IN [k \in DOMAIN kept |-> fold_tokens(kept[k], <<>>, <<>>)]

Separated(input) ==
    /\ input # <<>>
    /\ Head(input) # ";"
    /\ \A k \in DOMAIN input : input[k] # "@f()"

\* C25: consecutive separators collapse. For a text whose statements are
\* separated, and optionally followed, by one or more ';' (white space
\* allowed between them), Ast::parse succeeds with exactly the non-empty
\* statements in the order of the text, and a text with no non-empty
\* statement is an error.
C25_SeparatorsCollapse ==
    (parse.pc = "parsed" /\ parse.by = "codegen" /\ Separated(parse.input)) =>
        IF NonEmptyStatements(parse.input) = <<>>
        THEN parse.result.res # "Ok"
        ELSE /\ parse.result.res = "Ok"
             /\ parse.result.value = NonEmptyStatements(parse.input)

\* The list of statements before the empty ones are filtered out.
ParsedList == separated_list1(parse.by, parse.params_set, parse.input)

OnlyWhitespace(statement) == \A k \in DOMAIN statement : IsWhitespace(statement[k])

\* C26: a statement is dropped as empty exactly when all of its nodes are
\* literals of white space: after either parser ran, the statements it kept
\* are the parsed ones that are not white space only, so one with a
\* parameter, an auth parameter or a call-site is kept.
C26_OnlyWhitespaceIsEmpty ==
    (parse.pc = "parsed" /\ ParsedList.res = "Ok") =>
        LET kept == SelectSeq(ParsedList.value, LAMBDA st : ~OnlyWhitespace(st))
        IN IF kept = <<>>
           THEN parse.result.res = "this module has no statements"
           ELSE /\ parse.result.res # "this module has no statements"
                /\ parse.result.res = "Ok" => parse.result.value = kept

\* ---------------------------------------------------------------------------
\* More claims about watch mode (SpecWatch)
\* ---------------------------------------------------------------------------

\* The import checks of FrontMatter::new for a stored module, made against
\* the modules stored now: every recorded import is stored and is a single
\* statement.
ImportsChecked(c, location) ==
    \A q \in c.locations[location].imports :
        /\ contains_key(c.locations, q)
        /\ c.locations[q].single

\* C27: in watch mode, whenever the watcher has handled the events it
\* received, every stored module passes its import checks against the
\* modules stored now.
C27_ImportsStayChecked ==
    wpc = "recv" => \A l \in DOMAIN coll.locations : ImportsChecked(coll, l)

\* ---------------------------------------------------------------------------
\* More claims about the binder (SpecBind)
\* ---------------------------------------------------------------------------

\* Where the value of a parameter has to come from.
OriginOf(param) == IF param.kind = "Auth" THEN "auth" ELSE "request"

\* The placeholders the binder wrote.
Written == {bind.writer[i] : i \in Placeholders}

Evaluated == bind.pc \in {"bound", "unbound"}

\* C28: evaluating a module never binds an auth parameter from request
\* data. The value bound to every placeholder, of the statement and of the
\* imports inlined in it, is the auth binding of its name for an Auth and
\* the request binding of its name for a Param; Auth(name) and Param(name)
\* have different numbers; and without auth bindings a statement with an
\* auth parameter is not evaluated.
C28_AuthIsNeverBoundFromRequest ==
    /\ bind.pc = "bound" =>
           \A w \in Written :
               bind.values[w.n] = Binding(OriginOf(w.param), w.param.name)
    /\ Evaluated =>
           \A name \in BindNames :
               (ParamType_Auth(name) \in DOMAIN bind.mapping
                /\ ParamType_Param(name) \in DOMAIN bind.mapping)
               => bind.mapping[ParamType_Auth(name)]
                  # bind.mapping[ParamType_Param(name)]
    /\ (Evaluated /\ bind.auth_bindings = NoAuthBindings
        /\ \E w \in Written : w.param.kind = "Auth")
       => bind.pc = "unbound"

\* A statement with an auth parameter x in an inlined import and a
\* parameter x of the same name has been bound.
C28_Witness ==
    /\ bind.pc = "bound"
    /\ \E w \in Written : w.param = ParamType_Auth("x") /\ w.depth > 1
    /\ \E w \in Written : w.param = ParamType_Param("x")

\* ---------------------------------------------------------------------------
\* SpecDiscover: the loop `while to_import.len() != 0` of Module::from_paths,
\* one round at a time.  batch holds the
\* locals of from_paths (file_contents and asts as the sets of their keys),
\* the number of rounds, and for every path the number of rounds in which
\* gen_asts parsed it.
\* ---------------------------------------------------------------------------

\* A loop that asks again for what it has imported.
forgets_what_it_imported(files, new_asts, path_deps, failed_imports) ==
    flat_map([i \in DOMAIN into_iter(new_asts) |->
                 into_iter(canonicalized_dependencies(files, into_iter(new_asts)[i]))])

\* unimported_paths of gen_asts: the dependencies of the new asts, in the
\* order of the asts, without what is parsed, was a dependency or failed.
unimported_paths(files, new_asts, path_deps, failed_imports) ==
    SelectSeq(flat_map([i \in DOMAIN into_iter(new_asts) |->
                           into_iter(canonicalized_dependencies(
                               files, into_iter(new_asts)[i]))]),
              LAMBDA q : ~(q \in new_asts \/ q \in path_deps \/ q \in failed_imports))

\* What a path holds: something that cannot be read as a file, text that
\* does not parse, or a module that imports at most one other file.
DiscoverFiles(path) ==
    {Dir, Source(FALSE, FALSE, NoEndpoint, {}, FALSE, FALSE)}
    \cup {Source(TRUE, TRUE, NoEndpoint, imps, TRUE, TRUE) :
            imps \in {{}} \cup {{q} : q \in Files \ {path}}}

DiscoverBatches ==
    {f \in [Files -> UNION {DiscoverFiles(q) : q \in Files}] :
        \A q \in Files : f[q] \in DiscoverFiles(q)}

\* The paths from_paths is called with: one path, or two of which the
\* first is path 1; and the dependencies it is given: none, or path 1.
PathLists == {<<q>> : q \in Files} \cup {<<1, q>> : q \in Files}

Deps == {{}, {1}}

InitDiscover ==
    /\ IdleColl
    /\ IdleTopo
    /\ IdleNeed
    /\ IdleBoot
    /\ bind = NotBinding
    /\ unit = NotChecked
    /\ parse = [pc |-> "idle"]
    /\ fs \in DiscoverBatches
    /\ fsOps = 0
    /\ queue = <<>>
    /\ lock = "free"
    /\ wpc = "recv"
    /\ wevt = NoEvent
    /\ wfailed = FALSE
    /\ wpre = EmptyCollection
    /\ wnew = EmptyCollection
    /\ rlast = "none"
    /\ \E paths \in PathLists, deps \in Deps :
         batch = [pc |-> "loop", to_import |-> paths, file_contents |-> {},
                  asts |-> {}, path_deps |-> deps, errors |-> {},
                  parsed |-> [q \in Files |-> 0], rounds |-> 0]

\* One round of the loop: gen_file_contents and gen_asts on to_import, then
\* path_deps, asts and to_import are updated.
ImportRound ==
    /\ batch.pc = "loop"
    /\ batch.to_import # <<>>
    /\ batch.rounds < MaxRounds
    /\ LET asked == Range(batch.to_import)
           read == {q \in asked : read_ok(fs, q)}
           contents == batch.file_contents \cup read
           new_asts == {q \in asked : q \in contents /\ fs[q].parses}
           failed_imports == {q \in asked : q \in contents /\ ~fs[q].parses}
       IN \E next_imports \in {unimported_paths(fs, new_asts, batch.path_deps,
                                                failed_imports)} :
            batch' = [batch EXCEPT
                !.file_contents = contents,
                !.asts = @ \cup new_asts,
                !.path_deps = @ \cup new_asts \cup failed_imports,
                !.errors = @ \cup {Error(q, "io") : q \in asked \ read}
                             \cup {Error(q, "parse") : q \in failed_imports},
                !.parsed = [q \in Files |->
                               IF q \in new_asts \cup failed_imports
                               THEN @[q] + 1 ELSE @[q]],
                !.rounds = @ + 1,
                !.to_import = next_imports]
    /\ UNCHANGED <<fs, notCompile>>

\* to_import.len() == 0: the loop is left.
ImportDone ==
    /\ batch.pc = "loop"
    /\ batch.to_import = <<>>
    /\ batch' = [batch EXCEPT !.pc = "imported"]
    /\ UNCHANGED <<fs, notCompile>>

NextDiscover ==
    \/ ImportRound
    \/ ImportDone

SpecDiscover == InitDiscover /\ [][NextDiscover]_vars

\* The thread that runs from_paths is scheduled.
SpecDiscoverFair == SpecDiscover /\ WF_vars(NextDiscover)

\* C29: the import-discovery loop of from_paths terminates on every batch
\* of files, with import cycles, unparsable and unreadable files: no path
\* is parsed in more than one round, the loop is never cut short by the
\* bound on the rounds, and to_import becomes empty and the loop is left.
C29_DiscoveryTerminates ==
    /\ [](batch.pc \in {"loop", "imported"} =>
             /\ \A q \in Files : batch.parsed[q] <= 1
             /\ (batch.pc = "loop" /\ batch.to_import # <<>>) => batch.rounds < MaxRounds)
    /\ <>(batch.pc = "imported")

\* The loop was left after two rounds or more on files that import each
\* other in a cycle, with a file that could not be read or parsed.
C29_Witness ==
    /\ batch.pc = "imported"
    /\ batch.rounds >= 2
    /\ batch.errors # {}
    /\ \E q, r \in batch.asts : q \in fs[r].imports /\ r \in fs[q].imports

\* ---------------------------------------------------------------------------
\* The Rename event (SpecWatch)
\* ---------------------------------------------------------------------------

\* C30: a Rename event handled by the watcher leaves the shared collection
\* unchanged: the step that takes a Rename event from the queue changes
\* neither map of the collection, so the module stays registered under the
\* old path and its endpoint, and nothing is registered under the new path.
C30_RenameChangesNothing ==
    [][(queue # <<>> /\ Head(queue).kind = "Rename" /\ wevt' = Head(queue)
        /\ queue' = Tail(queue))
       => (coll' = coll /\ wpc' = "recv" /\ lock' = lock)]_vars

\* The watcher has handled the rename of a stored module with an endpoint:
\* the module is still stored under the old path and its endpoint, the new
\* path holds the file and is not stored.
C30_Witness ==
    /\ wpc = "recv"
    /\ wevt.kind = "Rename"
    /\ contains_key(coll.locations, wevt.path)
    /\ coll.locations[wevt.path].endpoint \in DOMAIN coll.endpoints
    /\ fs[wevt.path].kind = "absent"
    /\ fs[wevt.to].kind = "file"
    /\ ~contains_key(coll.locations, wevt.to)

====
